---- MODULE Spec2Model ----
(***************************************************************************)
(* State-machine model of the pranaOS kernel virtual-memory core:          *)
(*   src/kernel/vm/AnonymousVMObject.cpp  (anonymous VM objects)           *)
(*   src/kernel/vm/Region.cpp             (regions, page-fault handling)   *)
(* Page-fault handlers run step by step on several CPUs; the remaining     *)
(* operations are atomic and run while no handler is in flight.            *)
(***************************************************************************)
EXTENDS Integers, Sequences, FiniteSets, TLC

\* ------------------------------------------------------------------ bounds
MaxVMO == 2
MaxRegion == 3
NPages == 2
TotalPages == 4
MaxVal == 1
NCPU == 2
PageSize == 2
NRanges == 2

VMOs == 1..MaxVMO
Regions == 1..MaxRegion
Pages == 0..(NPages - 1)
Frames == 1..TotalPages
Pools == 1..MaxVMO
Values == 0..MaxVal
CPUs == 1..NCPU
VirtualRanges == 1..NRanges

\* ------------------------------------------------- physical page references
\* A slot (RefPtr<PhysicalPage>) is null, one of the two process-wide
\* sentinels, or an ordinary frame 1..TotalPages.
NullPage == 0
SharedZero == -1
LazyCommitted == -2

is_shared_zero_page(s) == s = SharedZero
is_lazy_committed_page(s) == s = LazyCommitted
IsSentinel(s) == is_shared_zero_page(s) \/ is_lazy_committed_page(s)
IsNormal(s) == s \in Frames

VARIABLES
    vmobjects,   \* [VMOs -> AnonymousVMObject]
    regions,     \* [Regions -> Region]
    pools,       \* [Pools -> m_committed_pages of a CommittedCowPages]
    committed,   \* MM: user physical pages committed and not yet allocated
    content,     \* [Frames -> Values]: the data held by each frame
    cpus,        \* [CPUs -> the page-fault handler running on that CPU]
    panic,       \* "none", or the VERIFY that halted the kernel
    last         \* the operation that produced this state

vars == <<vmobjects, regions, pools, committed, content, cpus, panic, last>>

\* ---------------------------------------------------------------- records
NullCowMap == [is_null |-> TRUE, bits |-> [p \in Pages |-> FALSE]]

\* `ever` marks an identifier that has been handed out: identifiers are not
\* reused, so a run creates at most MaxVMO VMOs and MaxRegion Regions.
DeadVMO ==
    [alive |-> FALSE, ever |-> FALSE, is_inode |-> FALSE,
     m_physical_pages |-> [p \in Pages |-> NullPage],
     m_cow_map |-> NullCowMap,
     m_unused_committed_pages |-> 0,
     m_shared_committed_cow_pages |-> 0,
     volatile |-> {},
     m_regions |-> {},
     m_lock |-> 0]

ClearPTE == [present |-> FALSE, writable |-> FALSE, frame |-> NullPage]

DeadRegion ==
    [alive |-> FALSE, ever |-> FALSE,
     m_range |-> 0,
     m_offset_in_vmobject |-> 0,
     m_cacheable |-> FALSE,
     m_mmap |-> FALSE,
     m_syscall_region |-> FALSE,
     m_vmobject |-> 0,
     m_shared |-> FALSE,
     readable |-> FALSE,
     writable |-> FALSE,
     m_page_directory |-> FALSE,
     pte |-> [p \in Pages |-> ClearPTE]]

IdleCPU ==
    [pc |-> "idle", region |-> 0, page |-> 0, type |-> "none", access |-> "none",
     new_page |-> NullPage, at_lazy |-> FALSE, allocated |-> 0, decremented |-> 0,
     at_empty |-> FALSE, copy_faulted |-> FALSE, held |-> <<>>, clone_vmobject |-> 0, remapped |-> FALSE,
     nread |-> 0, page_buffer |-> <<>>,
     response |-> "none"]

Op(op, ok, r, v, w, p, resp) ==
    [op |-> op, ok |-> ok, r |-> r, v |-> v, w |-> w, p |-> p, resp |-> resp]

\* What every step without a result of interest records.
Step == Op("step", TRUE, 0, 0, 0, 0, "none")

\* ------------------------------------------------------- frame accounting
SetMin(S) == CHOOSE x \in S : \A y \in S : x <= y

\* PhysicalPage::ref_count(): the slots and handler locals that hold the frame.
RefCountIn(vms, cps, f) ==
    Cardinality({vp \in VMOs \X Pages : vms[vp[1]].m_physical_pages[vp[2]] = f})
    + Cardinality({c \in CPUs : cps[c].new_page = f})

ref_count(f) == IF IsSentinel(f) THEN 2 + MaxVMO * NPages ELSE RefCountIn(vmobjects, cpus, f)

FreeFramesIn(vms, cps) == {f \in Frames : RefCountIn(vms, cps, f) = 0}
FreeFrames == FreeFramesIn(vmobjects, cpus)
Used == TotalPages - Cardinality(FreeFrames)

\* MM: pages neither committed nor allocated.
Uncommitted == TotalPages - committed - Used

\* MM.commit_user_physical_pages(n) succeeds iff the uncommitted pool holds n.
CanCommit(n) == Uncommitted >= n

\* A frame whose last reference is gone returns to the allocator; its data is
\* no longer observable through any slot.
Scrub(cnt, vms, cps) ==
    [f \in Frames |-> IF RefCountIn(vms, cps, f) = 0 THEN 0 ELSE cnt[f]]

\* --------------------------------------------------------------- cow map
ensure_cow_map(cm) ==
    IF cm.is_null THEN [is_null |-> FALSE, bits |-> [p \in Pages |-> TRUE]] ELSE cm

ensure_or_reset_cow_map(cm) ==
    IF cm.is_null THEN ensure_cow_map(cm)
    ELSE [cm EXCEPT !.bits = [p \in Pages |-> TRUE]]

set_should_cow(cm, page_index, cow) ==
    [ensure_cow_map(cm) EXCEPT !.bits[page_index] = cow]

\* A should_cow that looks at the cow bitmap for shared Regions too.
should_cow_any_region(vm, page_index, is_shared) ==
    LET page == vm.m_physical_pages[page_index] IN
    IF page # NullPage /\ (is_shared_zero_page(page) \/ is_lazy_committed_page(page)) THEN TRUE
    ELSE ~vm.m_cow_map.is_null /\ vm.m_cow_map.bits[page_index]

should_cow(vm, page_index, is_shared) ==
    LET page == vm.m_physical_pages[page_index] IN
    IF page # NullPage /\ (is_shared_zero_page(page) \/ is_lazy_committed_page(page)) THEN TRUE
    ELSE IF is_shared THEN FALSE
    ELSE ~vm.m_cow_map.is_null /\ vm.m_cow_map.bits[page_index]

cow_pages(vm) ==
    IF vm.m_cow_map.is_null THEN 0
    ELSE Cardinality({p \in Pages : vm.m_cow_map.bits[p]})

\* ------------------------------------------------------ volatile ranges
is_nonvolatile(vm, page_index) == page_index \notin vm.volatile
NonvolatilePages(vm) == {p \in Pages : is_nonvolatile(vm, p)}

\* ------------------------------------------------------------------ pools
PoolRefsIn(vms, k) == {v \in VMOs : vms[v].alive /\ vms[v].m_shared_committed_cow_pages = k}
PoolLive(k) == PoolRefsIn(vmobjects, k) # {}
FreePool == SetMin({k \in Pools : ~PoolLive(k)})

\* ~CommittedCowPages: a pool that lost its last reference gives its
\* remaining credits back to the global commit.
ReleasedCredits(pls, vms_before, vms_after) ==
    LET dead == {k \in Pools : PoolRefsIn(vms_before, k) # {} /\ PoolRefsIn(vms_after, k) = {}} IN
    IF dead = {} THEN 0 ELSE
    LET RECURSIVE Sum(_)
        Sum(S) == IF S = {} THEN 0 ELSE LET k == SetMin(S) IN pls[k] + Sum(S \ {k})
    IN Sum(dead)

ReapPools(pls, vms_after) ==
    [k \in Pools |-> IF PoolRefsIn(vms_after, k) = {} THEN 0 ELSE pls[k]]

\* ---------------------------------------------------------------- regions
\* VMObject::add_region and VMObject::remove_region on the VMO's m_regions.
add_region(vms, v, r) == [vms EXCEPT ![v].m_regions = @ \cup {r}]

remove_region(vms, v, r) == [vms EXCEPT ![v].m_regions = @ \ {r}]

RegionsOf(v) == {r \in Regions : regions[r].alive /\ regions[r].m_vmobject = v}
is_readable(reg) == reg.readable
\* A Region that passes for writable whatever its access bits.
is_writable_always(reg) == TRUE

is_writable(reg) == reg.writable

\* Region::should_cow: false for a VMO that is not anonymous.
region_should_cow(reg, page_index) ==
    /\ ~vmobjects[reg.m_vmobject].is_inode
    /\ should_cow(vmobjects[reg.m_vmobject], page_index, reg.m_shared)

\* map_individual_page_impl without the test of lines 195-196: the entry is
\* writable whenever the Region is.
map_individual_page_impl_writable(reg, vm, page_index) ==
    LET page == vm.m_physical_pages[page_index] IN
    IF page = NullPage \/ (~is_readable(reg) /\ ~is_writable(reg)) THEN ClearPTE
    ELSE [present |-> TRUE, writable |-> is_writable(reg), frame |-> page]

\* Region::map_individual_page_impl: the page-table entry computed from the
\* slot and the Region's access bits.
map_individual_page_impl(reg, vm, page_index) ==
    LET page == vm.m_physical_pages[page_index] IN
    IF page = NullPage \/ (~is_readable(reg) /\ ~is_writable(reg)) THEN ClearPTE
    ELSE [present |-> TRUE,
          writable |-> IF is_shared_zero_page(page) \/ is_lazy_committed_page(page)
                          \/ (~vm.is_inode /\ should_cow(vm, page_index, reg.m_shared))
                       THEN FALSE ELSE is_writable(reg),
          frame |-> page]

\* An amount_resident that counts the sentinel pages too.
amount_resident_with_sentinels(r) ==
    PageSize * Cardinality({p \in Pages :
        vmobjects[regions[r].m_vmobject].m_physical_pages[p] # NullPage})

\* Region::amount_resident: PageSize bytes for every slot that holds a frame
\* other than the two sentinels.
amount_resident(r) ==
    PageSize * Cardinality({p \in Pages :
        LET page == vmobjects[regions[r].m_vmobject].m_physical_pages[p] IN
        page # NullPage /\ ~is_shared_zero_page(page) /\ ~is_lazy_committed_page(page)})

AllIdle == \A c \in CPUs : cpus[c].pc = "idle"
Running == panic = "none"

\* ------------------------------------------------------------------- Init
Init ==
    /\ vmobjects = [v \in VMOs |-> DeadVMO]
    /\ regions = [r \in Regions |-> DeadRegion]
    /\ pools = [k \in Pools |-> 0]
    /\ committed = 0
    /\ content = [f \in Frames |-> 0]
    /\ cpus = [c \in CPUs |-> IdleCPU]
    /\ panic = "none"
    /\ last = Op("init", TRUE, 0, 0, 0, 0, "none")

\* ------------------------------------------------------- VMO construction
RECURSIVE NthMin(_, _)
NthMin(S, i) == IF i = 0 THEN SetMin(S) ELSE NthMin(S \ {SetMin(S)}, i - 1)

FreeVMO == SetMin({v \in VMOs : ~vmobjects[v].ever})
FreeRegion == SetMin({r \in Regions : ~regions[r].ever})

\* A constructor that fills the slots with the shared zero page whatever the
\* strategy.
NewAnonymousVMObject_shared_zero(strategy) ==
    [alive |-> TRUE, ever |-> TRUE, is_inode |-> FALSE,
     m_physical_pages |-> [p \in Pages |-> SharedZero],
     m_cow_map |-> NullCowMap,
     m_unused_committed_pages |-> IF strategy = "Reserve" THEN NPages ELSE 0,
     volatile |-> {},
     m_shared_committed_cow_pages |-> 0,
     m_regions |-> {},
     m_lock |-> 0]

\* AnonymousVMObject::AnonymousVMObject(size_t, AllocationStrategy)
NewAnonymousVMObject(strategy) ==
    [alive |-> TRUE, ever |-> TRUE, is_inode |-> FALSE,
     m_physical_pages |->
        IF strategy = "AllocateNow" THEN [p \in Pages |-> NthMin(FreeFrames, p)]
        ELSE IF strategy = "Reserve" THEN [p \in Pages |-> LazyCommitted]
        ELSE [p \in Pages |-> SharedZero],
     m_cow_map |-> NullCowMap,
     m_unused_committed_pages |-> IF strategy = "Reserve" THEN NPages ELSE 0,
     volatile |-> {},
     m_shared_committed_cow_pages |-> 0,
     m_regions |-> {},
     m_lock |-> 0]

\* AnonymousVMObject::try_create_with_size; heap_ok is the outcome of
\* new (nothrow).
try_create_with_size(strategy, heap_ok) ==
    /\ Running /\ AllIdle
    /\ \E v \in VMOs : ~vmobjects[v].ever
    /\ LET v == FreeVMO
           commits == strategy \in {"Reserve", "AllocateNow"} IN
       IF commits /\ ~CanCommit(NPages) THEN
           /\ last' = Op("create", FALSE, 0, 0, 0, committed, strategy)
           /\ UNCHANGED <<vmobjects, committed>>
       ELSE IF ~heap_ok THEN
           /\ committed' = IF commits THEN committed + NPages ELSE committed
           /\ last' = Op("create", FALSE, 0, 0, 0, committed, "heap")
           /\ UNCHANGED vmobjects
       ELSE
           /\ vmobjects' = [vmobjects EXCEPT ![v] = NewAnonymousVMObject(strategy)]
           /\ committed' = IF strategy = "Reserve" THEN committed + NPages ELSE committed
           /\ last' = Op("create", TRUE, 0, v, 0, committed, strategy)
    /\ UNCHANGED <<regions, pools, content, cpus, panic>>

\* An inode-backed VMO (PrivateInodeVMObject): every slot is empty until a
\* page is faulted in.
try_create_with_inode ==
    /\ Running /\ AllIdle
    /\ \E v \in VMOs : ~vmobjects[v].ever
    /\ vmobjects' = [vmobjects EXCEPT ![FreeVMO] =
          [DeadVMO EXCEPT !.alive = TRUE, !.ever = TRUE, !.is_inode = TRUE]]
    /\ last' = Step
    /\ UNCHANGED <<regions, pools, committed, content, cpus, panic>>

\* A destructor that gives nothing back to the commit counter.
DestroyVMO_keeps_commit(v) ==
    /\ Running /\ AllIdle
    /\ vmobjects[v].alive
    /\ RegionsOf(v) = {}
    /\ LET vms == [vmobjects EXCEPT ![v] = [DeadVMO EXCEPT !.ever = TRUE]] IN
       /\ vmobjects' = vms
       /\ pools' = ReapPools(pools, vms)
       /\ content' = Scrub(content, vms, cpus)
    /\ last' = Op("destroy", TRUE, 0, v, 0, vmobjects[v].m_unused_committed_pages, "none")
    /\ UNCHANGED <<committed, regions, cpus, panic>>

\* AnonymousVMObject::~AnonymousVMObject, run when the last reference to the
\* VMO is dropped.
DestroyVMO(v) ==
    /\ Running /\ AllIdle
    /\ vmobjects[v].alive
    /\ RegionsOf(v) = {}
    /\ LET vms == [vmobjects EXCEPT ![v] = [DeadVMO EXCEPT !.ever = TRUE]] IN
       /\ vmobjects' = vms
       /\ committed' = committed - vmobjects[v].m_unused_committed_pages
                                 - ReleasedCredits(pools, vmobjects, vms)
       /\ pools' = ReapPools(pools, vms)
       /\ content' = Scrub(content, vms, cpus)
    /\ last' = Op("destroy", TRUE, 0, v, 0, vmobjects[v].m_unused_committed_pages, "none")
    /\ UNCHANGED <<regions, cpus, panic>>

\* ------------------------------------------------------------ Region ops
AccessModes == {<<TRUE, TRUE>>, <<TRUE, FALSE>>, <<FALSE, TRUE>>, <<FALSE, FALSE>>}

\* Region::Region via Region::try_create_user_accessible.  A Region spans
\* its whole VMO (offset 0); unless said otherwise it lies in the first
\* virtual range and is cacheable.
NewRegion(v, access, shared) ==
    [alive |-> TRUE, ever |-> TRUE,
     m_range |-> 1,
     m_offset_in_vmobject |-> 0,
     m_cacheable |-> TRUE,
     m_mmap |-> FALSE,
     m_syscall_region |-> FALSE,
     m_vmobject |-> v,
     m_shared |-> shared,
     readable |-> access[1],
     writable |-> access[2],
     m_page_directory |-> FALSE,
     pte |-> [p \in Pages |-> ClearPTE]]

\* A child Region that takes the parent's range, offset, access, cacheable
\* and shared flags but not its mmap and syscall tags.
CloneRegion_untagged(reg, w) ==
    [NewRegion(w, <<reg.readable, reg.writable>>, reg.m_shared) EXCEPT
        !.m_range = reg.m_range,
        !.m_offset_in_vmobject = reg.m_offset_in_vmobject,
        !.m_cacheable = reg.m_cacheable]

\* Region::clone lines 64-72 and 84-97: the child Region over VMO w, made
\* from the parent's range, offset, access, cacheable and shared flags, then
\* given its mmap and syscall tags.
CloneRegion(reg, w) ==
    [NewRegion(w, <<reg.readable, reg.writable>>, reg.m_shared) EXCEPT
        !.m_range = reg.m_range,
        !.m_offset_in_vmobject = reg.m_offset_in_vmobject,
        !.m_cacheable = reg.m_cacheable,
        !.m_mmap = reg.m_mmap,
        !.m_syscall_region = reg.m_syscall_region]

\* Region::try_create_user_accessible with a range and a cacheable flag of
\* the caller's choice.
try_create_user_accessible_in(range, v, access, cacheable, shared) ==
    /\ Running /\ AllIdle
    /\ vmobjects[v].alive
    /\ \E r \in Regions : ~regions[r].ever
    /\ regions' = [regions EXCEPT ![FreeRegion] =
          [NewRegion(v, access, shared) EXCEPT !.m_range = range, !.m_cacheable = cacheable]]
    /\ vmobjects' = add_region(vmobjects, v, FreeRegion)
    /\ last' = Step
    /\ UNCHANGED <<pools, committed, content, cpus, panic>>

\* Region::set_mmap and Region::set_syscall_region.
set_mmap(r, mmap) ==
    /\ Running /\ AllIdle
    /\ regions[r].alive /\ regions[r].m_mmap # mmap
    /\ regions' = [regions EXCEPT ![r].m_mmap = mmap]
    /\ last' = Step
    /\ UNCHANGED <<vmobjects, pools, committed, content, cpus, panic>>

set_syscall_region(r, b) ==
    /\ Running /\ AllIdle
    /\ regions[r].alive /\ regions[r].m_syscall_region # b
    /\ regions' = [regions EXCEPT ![r].m_syscall_region = b]
    /\ last' = Step
    /\ UNCHANGED <<vmobjects, pools, committed, content, cpus, panic>>

try_create_user_accessible(v, access, shared) ==
    /\ Running /\ AllIdle
    /\ vmobjects[v].alive
    /\ \E r \in Regions : ~regions[r].ever
    /\ regions' = [regions EXCEPT ![FreeRegion] = NewRegion(v, access, shared)]
    /\ vmobjects' = add_region(vmobjects, v, FreeRegion)
    /\ last' = Step
    /\ UNCHANGED <<pools, committed, content, cpus, panic>>

\* The page-table entries after the loop of Region::map, where installing
\* page k failed (k = NPages: no page failed).
MapPages(reg, vm, k) ==
    [p \in Pages |-> IF p < k THEN map_individual_page_impl(reg, vm, p) ELSE reg.pte[p]]

\* Region::map lines 276-281: the value returned when the loop stopped at
\* page_index.
map_returns(page_index) ==
    IF page_index > 0 THEN page_index = NPages ELSE FALSE

\* A flush of the whole range whenever the policy asks for a flush.
map_flushes_whole_range(page_index, should_flush_tlb) ==
    IF should_flush_tlb THEN NPages ELSE 0

\* Region::map lines 276-278: the number of pages, from the base of the
\* Region, for which the TLB is flushed.
map_flushes(page_index, should_flush_tlb) ==
    IF page_index > 0 /\ should_flush_tlb THEN page_index ELSE 0

\* Region::map; ensure_pte can fail only where no entry is installed yet.
\* The flush policy is the caller's choice.
map(r, k) ==
    /\ Running /\ AllIdle
    /\ regions[r].alive
    /\ k < NPages => ~regions[r].pte[k].present
    /\ regions' = [regions EXCEPT ![r].m_page_directory = TRUE,
                                  ![r].pte = MapPages(regions[r], vmobjects[regions[r].m_vmobject], k)]
    /\ \E should_flush_tlb \in BOOLEAN :
          last' = Op("map", map_returns(k), r, regions[r].m_vmobject, k,
                     map_flushes(k, should_flush_tlb),
                     IF should_flush_tlb THEN "Yes" ELSE "No")
    /\ UNCHANGED <<vmobjects, pools, committed, content, cpus, panic>>

\* An unmap that always gives the range back to the user range allocator.
unmap_deallocates_to_user(deallocate_range, contains) ==
    IF deallocate_range THEN "range_allocator" ELSE "none"

\* Region::unmap lines 244-249: the allocator the virtual range is given
\* back to.
unmap_deallocates(deallocate_range, contains) ==
    IF deallocate_range
    THEN IF contains THEN "range_allocator" ELSE "identity_range_allocator"
    ELSE "none"

\* Region::unmap: release every page-table entry and forget the page
\* directory.  It takes s_mm_lock and the page directory lock, not the VMO
\* lock, so it runs while a fault handler of another CPU is under way.
\* contains says whether the page directory's user range allocator holds
\* the Region's range; a call on a Region without a page directory returns at
\* once.
unmap(r, deallocate_range, contains) ==
    /\ Running
    /\ regions[r].alive
    /\ IF ~regions[r].m_page_directory THEN
           /\ last' = Op("unmap", FALSE, r, regions[r].m_vmobject, 0, 0, "none")
           /\ UNCHANGED regions
       ELSE
           /\ regions' = [regions EXCEPT ![r].m_page_directory = FALSE,
                                         ![r].pte = [p \in Pages |-> ClearPTE]]
           /\ last' = Op("unmap", TRUE, r, regions[r].m_vmobject, 0, NPages,
                         unmap_deallocates(deallocate_range, contains))
    /\ UNCHANGED <<vmobjects, pools, committed, content, cpus, panic>>

\* Region::~Region: deregister from the VMO and unmap.
DestroyRegion(r) ==
    /\ Running /\ AllIdle
    /\ regions[r].alive
    /\ regions' = [regions EXCEPT ![r] = [DeadRegion EXCEPT !.ever = TRUE]]
    /\ vmobjects' = remove_region(vmobjects, regions[r].m_vmobject, r)
    /\ last' = Step
    /\ UNCHANGED <<pools, committed, content, cpus, panic>>

\* A set_vmobject that registers with the new VMO and stays registered with
\* the old one.
set_vmobject_keeps_old(r, obj) ==
    /\ Running /\ AllIdle
    /\ regions[r].alive /\ vmobjects[obj].alive
    /\ IF regions[r].m_vmobject = obj THEN
           /\ last' = Op("set_vmobject", FALSE, r, obj, obj, 0, "none")
           /\ UNCHANGED <<vmobjects, regions>>
       ELSE
           /\ vmobjects' = add_region(vmobjects, obj, r)
           /\ regions' = [regions EXCEPT ![r].m_vmobject = obj]
           /\ last' = Op("set_vmobject", TRUE, r, regions[r].m_vmobject, obj, 0, "none")
    /\ UNCHANGED <<pools, committed, content, cpus, panic>>

\* Region::set_vmobject: nothing when the Region references obj already;
\* otherwise deregister from the old VMO, take the new reference, register
\* with the new VMO.
set_vmobject(r, obj) ==
    /\ Running /\ AllIdle
    /\ regions[r].alive /\ vmobjects[obj].alive
    /\ IF regions[r].m_vmobject = obj THEN
           /\ last' = Op("set_vmobject", FALSE, r, obj, obj, 0, "none")
           /\ UNCHANGED <<vmobjects, regions>>
       ELSE
           /\ vmobjects' = add_region(remove_region(vmobjects, regions[r].m_vmobject, r), obj, r)
           /\ regions' = [regions EXCEPT ![r].m_vmobject = obj]
           /\ last' = Op("set_vmobject", TRUE, r, regions[r].m_vmobject, obj, 0, "none")
    /\ UNCHANGED <<pools, committed, content, cpus, panic>>

\* A user-mode store through a present, writable page-table entry.
UserWrite(r, p, val) ==
    /\ Running
    /\ regions[r].alive /\ regions[r].m_page_directory
    /\ regions[r].pte[p].present /\ regions[r].pte[p].writable
    /\ IsNormal(regions[r].pte[p].frame)
    /\ content[regions[r].pte[p].frame] # val
    /\ content' = Scrub([content EXCEPT ![regions[r].pte[p].frame] = val], vmobjects, cpus)
    /\ last' = Step
    /\ UNCHANGED <<vmobjects, regions, pools, committed, cpus, panic>>


\* ------------------------------------------------------------------ clone
\* The loop of AnonymousVMObject::AnonymousVMObject(AnonymousVMObject const&):
\* lazy-committed slots of the copy become shared-zero until the copied
\* counter reaches zero.
RECURSIVE CopyLazyLoop(_, _, _)
CopyLazyLoop(pp, unused, i) ==
    IF i = NPages THEN [pages |-> pp, unused |-> unused]
    ELSE IF pp[i] # NullPage /\ is_lazy_committed_page(pp[i]) THEN
        IF unused - 1 = 0 THEN [pages |-> [pp EXCEPT ![i] = SharedZero], unused |-> 0]
        ELSE CopyLazyLoop([pp EXCEPT ![i] = SharedZero], unused - 1, i + 1)
    ELSE CopyLazyLoop(pp, unused, i + 1)

\* The copy constructor without its call of ensure_or_reset_cow_map: the
\* clone starts with no cow bitmap.
CopyAnonymousVMObject_no_cow_map(other) ==
    LET lp == IF other.m_unused_committed_pages > 0
              THEN CopyLazyLoop(other.m_physical_pages, other.m_unused_committed_pages, 0)
              ELSE [pages |-> other.m_physical_pages, unused |-> 0] IN
    [alive |-> TRUE, ever |-> TRUE, is_inode |-> FALSE,
     m_physical_pages |-> lp.pages,
     m_cow_map |-> NullCowMap,
     m_unused_committed_pages |-> lp.unused,
     volatile |-> {},
     m_shared_committed_cow_pages |-> other.m_shared_committed_cow_pages,
     m_regions |-> {},
     m_lock |-> 0]

\* The copy constructor, applied to `other` after try_clone has given it the
\* new pool and reset its cow map.
CopyAnonymousVMObject(other) ==
    LET lp == IF other.m_unused_committed_pages > 0
              THEN CopyLazyLoop(other.m_physical_pages, other.m_unused_committed_pages, 0)
              ELSE [pages |-> other.m_physical_pages, unused |-> 0] IN
    [alive |-> TRUE, ever |-> TRUE, is_inode |-> FALSE,
     m_physical_pages |-> lp.pages,
     m_cow_map |-> ensure_or_reset_cow_map(NullCowMap),
     m_unused_committed_pages |-> lp.unused,
     volatile |-> {},
     m_shared_committed_cow_pages |-> other.m_shared_committed_cow_pages,
     m_regions |-> {},
     m_lock |-> 0]

\* for_each_nonvolatile_range in try_clone: the pages to reserve.
need_cow_pages(vm) == Cardinality(NonvolatilePages(vm))

\* try_clone going on whatever MM.commit_user_physical_pages returned.
commit_need_cow_pages_unchecked(vm) == TRUE

\* try_clone line 27: MM.commit_user_physical_pages(need_cow_pages).
commit_need_cow_pages(vm) == CanCommit(need_cow_pages(vm))

\* The parent after try_clone has replaced its pool and reset its cow map.
TryCloneParent(vm, k) ==
    [vm EXCEPT !.m_shared_committed_cow_pages = k,
               !.m_cow_map = ensure_or_reset_cow_map(vm.m_cow_map)]

\* Region::clone of a shared Region: a new Region over the same VMO.
clone_shared(r) ==
    /\ Running /\ AllIdle
    /\ regions[r].alive /\ regions[r].m_shared
    /\ \E r2 \in Regions : ~regions[r2].ever
    /\ regions' = [regions EXCEPT ![FreeRegion] = CloneRegion(regions[r], regions[r].m_vmobject)]
    /\ vmobjects' = add_region(vmobjects, regions[r].m_vmobject, FreeRegion)
    /\ last' = Step
    /\ UNCHANGED <<pools, committed, content, cpus, panic>>

\* Region::clone of a private Region: AnonymousVMObject::try_clone, remap of
\* the caller's Region, then the child Region over the cloned VMO.  pool_ok
\* and vmo_ok are the outcomes of the two heap allocations in try_clone.
clone(r, pool_ok, vmo_ok) ==
    /\ Running /\ AllIdle
    /\ regions[r].alive /\ ~regions[r].m_shared /\ regions[r].m_page_directory
    /\ \E r2 \in Regions : ~regions[r2].ever
    /\ \E w \in VMOs : ~vmobjects[w].ever
    /\ LET v == regions[r].m_vmobject
           vm == vmobjects[v]
           need == need_cow_pages(vm)
           k == FreePool
           w == FreeVMO
           parent == TryCloneParent(vm, k)
           child == CopyAnonymousVMObject(parent)
           vms1 == [vmobjects EXCEPT ![v] = parent]
           vms2 == add_region([vms1 EXCEPT ![w] = child], w, FreeRegion)
           pls1 == [ReapPools(pools, vms1) EXCEPT ![k] = need]
       IN
       IF ~commit_need_cow_pages(vm) THEN
           /\ last' = Op("clone", FALSE, r, v, 0, 0, "commit")
           /\ UNCHANGED <<vmobjects, regions, pools, committed, content, panic>>
       ELSE IF ~pool_ok THEN
           /\ last' = Op("clone", FALSE, r, v, 0, 0, "pool_heap")
           /\ UNCHANGED <<vmobjects, regions, pools, committed, content, panic>>
       ELSE IF ~vmo_ok THEN
           /\ vmobjects' = vms1
           /\ pools' = pls1
           /\ committed' = committed + need - ReleasedCredits(pools, vmobjects, vms1)
           /\ last' = Op("clone", FALSE, r, v, 0, 0, "vmo_heap")
           /\ UNCHANGED <<regions, content, panic>>
       ELSE IF child.m_unused_committed_pages # 0 THEN
           /\ panic' = "VERIFY(m_unused_committed_pages == 0)"
           /\ last' = Op("clone", FALSE, r, v, 0, 0, "panic")
           /\ UNCHANGED <<vmobjects, regions, pools, committed, content>>
       ELSE
           /\ vmobjects' = vms2
           /\ pools' = pls1
           /\ committed' = committed + need - ReleasedCredits(pools, vmobjects, vms1)
           /\ regions' = [regions EXCEPT
                  ![r].pte = MapPages(regions[r], parent, NPages),
                  ![FreeRegion] = CloneRegion(regions[r], w)]
           /\ last' = Op("clone", TRUE, r, v, w, 0, "none")
           /\ UNCHANGED <<content, panic>>
    /\ UNCHANGED cpus


\* ------------------------------------------------------------------ locks
\* The spinlocks a thread holds, in the order it took them: "vmo" is the
\* VMObject's m_lock, "mm" is s_mm_lock, "pd" the page directory's lock.
\* Taking a lock the thread already owns is recursive and takes nothing new.
Holds(c, l) == \E i \in DOMAIN cpus[c].held : cpus[c].held[i] = l
LockFree(c, l) == \A c2 \in CPUs \ {c} : ~Holds(c2, l)
Acquire(c, l) == IF Holds(c, l) THEN cpus[c].held ELSE Append(cpus[c].held, l)

\* Region::clone line 57: ScopedSpinLock lock(s_mm_lock).
clone_enter(c, r) ==
    /\ Running
    /\ cpus[c].pc = "idle"
    /\ \A c2 \in CPUs : c2 < c => cpus[c2].pc # "idle"
    /\ regions[r].alive
    /\ regions[r].m_shared \/ regions[r].m_page_directory
    /\ \E r2 \in Regions : ~regions[r2].ever
    /\ regions[r].m_shared \/ \E w \in VMOs : ~vmobjects[w].ever
    /\ LockFree(c, "mm")
    /\ cpus' = [cpus EXCEPT ![c] =
          [IdleCPU EXCEPT !.pc = IF regions[r].m_shared THEN "clone_create"
                                 ELSE "clone_lock_vmobject",
                          !.region = r,
                          !.held = <<"mm">>]]
    /\ last' = Step
    /\ UNCHANGED <<vmobjects, regions, pools, committed, content, panic>>

\* AnonymousVMObject::try_clone line 18: ScopedSpinLock lock(m_lock), taken
\* with s_mm_lock held by Region::clone.
clone_lock_vmobject(c) ==
    /\ Running
    /\ cpus[c].pc = "clone_lock_vmobject"
    /\ LET v == regions[cpus[c].region].m_vmobject IN
       /\ vmobjects[v].m_lock = 0
       /\ vmobjects' = [vmobjects EXCEPT ![v].m_lock = c]
    /\ cpus' = [cpus EXCEPT ![c].pc = "clone_try_clone", ![c].held = Acquire(c, "vmo")]
    /\ last' = Step
    /\ UNCHANGED <<regions, pools, committed, content, panic>>

\* AnonymousVMObject::try_clone lines 20-40 under the VMO lock (both heap
\* allocations succeed); the lock is released on return.
clone_try_clone(c) ==
    /\ Running
    /\ cpus[c].pc = "clone_try_clone"
    /\ LET r == cpus[c].region
           v == regions[r].m_vmobject
           vm == [vmobjects[v] EXCEPT !.m_lock = 0]
           need == need_cow_pages(vm)
           k == FreePool
           w == FreeVMO
           parent == TryCloneParent(vm, k)
           child == CopyAnonymousVMObject(parent)
           vms1 == [vmobjects EXCEPT ![v] = parent]
           vms2 == [vms1 EXCEPT ![w] = child]
           pls1 == [ReapPools(pools, vms1) EXCEPT ![k] = need]
       IN
       IF ~commit_need_cow_pages(vm) THEN
           /\ vmobjects' = [vmobjects EXCEPT ![v] = vm]
           /\ cpus' = [cpus EXCEPT ![c] = IdleCPU]
           /\ last' = Op("clone", FALSE, r, v, 0, 0, "commit")
           /\ UNCHANGED <<pools, committed, panic>>
       ELSE IF child.m_unused_committed_pages # 0 THEN
           /\ panic' = "VERIFY(m_unused_committed_pages == 0)"
           /\ last' = Op("clone", FALSE, r, v, 0, 0, "panic")
           /\ UNCHANGED <<vmobjects, pools, committed, cpus>>
       ELSE
           /\ vmobjects' = vms2
           /\ pools' = pls1
           /\ committed' = committed + need - ReleasedCredits(pools, vmobjects, vms1)
           /\ cpus' = [cpus EXCEPT ![c].pc = "clone_remap", ![c].held = <<"mm">>,
                                   ![c].clone_vmobject = w]
           /\ last' = Step /\ UNCHANGED panic
    /\ UNCHANGED <<regions, content>>

\* Region::clone going on to the child Region without remap().
clone_remap_skipped(c) ==
    /\ Running
    /\ cpus[c].pc = "clone_remap"
    /\ cpus' = [cpus EXCEPT ![c].pc = "clone_create"]
    /\ last' = Step
    /\ UNCHANGED <<vmobjects, regions, pools, committed, content, panic>>

\* Region::clone line 83: remap() -> map(): s_mm_lock (owned already), then
\* the page directory lock, every page through map_individual_page_impl.
clone_remap(c) ==
    /\ Running
    /\ cpus[c].pc = "clone_remap"
    /\ LockFree(c, "pd")
    /\ LET r == cpus[c].region IN
       regions' = [regions EXCEPT
           ![r].pte = MapPages(regions[r], vmobjects[regions[r].m_vmobject], NPages)]
    /\ cpus' = [cpus EXCEPT ![c].pc = "clone_create", ![c].remapped = TRUE]
    /\ last' = Step
    /\ UNCHANGED <<vmobjects, pools, committed, content, panic>>

\* Region::clone lines 64-73 and 84-98: try_create_user_accessible for the
\* child Region, over the same VMO (shared) or over the clone (private);
\* s_mm_lock is released on return.
clone_create(c) ==
    /\ Running
    /\ cpus[c].pc = "clone_create"
    /\ LET r == cpus[c].region
           v == regions[r].m_vmobject
           w == IF regions[r].m_shared THEN v ELSE cpus[c].clone_vmobject IN
       /\ regions' = [regions EXCEPT ![FreeRegion] = CloneRegion(regions[r], w)]
       /\ vmobjects' = add_region(vmobjects, w, FreeRegion)
       /\ last' = Op("clone", TRUE, r, v, w, 0, "none")
    /\ cpus' = [cpus EXCEPT ![c] = IdleCPU]
    /\ UNCHANGED <<pools, committed, content, panic>>

\* ------------------------------------------------------------ page faults

\* Region::remap_vmobject_page -> do_remap_vmobject_page for every Region of
\* the VMO.  pt_ok is the outcome of ensure_pte where no entry exists yet.
RemapVMObjectPage(regs, vm, v, p, pt_ok) ==
    [r \in Regions |->
        IF regs[r].alive /\ regs[r].m_vmobject = v /\ regs[r].m_page_directory
           /\ (regs[r].pte[p].present \/ pt_ok)
        THEN [regs[r] EXCEPT !.pte[p] = map_individual_page_impl(regs[r], vm, p)]
        ELSE regs[r]]

NeedsPageTable(v, p) ==
    \E r \in RegionsOf(v) : regions[r].m_page_directory /\ ~regions[r].pte[p].present

RemapSucceeds(v, p, pt_ok) == pt_ok \/ ~NeedsPageTable(v, p)

\* The hardware raises a fault: NotPresent where no entry is installed,
\* ProtectionViolation on a store through a present read-only entry.  CPUs
\* are interchangeable: the fault goes to the lowest idle one.
FaultRaise(c, r, p, type, access) ==
    /\ Running
    /\ cpus[c].pc = "idle"
    /\ \A c2 \in CPUs : c2 < c => cpus[c2].pc # "idle"
    /\ regions[r].alive /\ regions[r].m_page_directory
    /\ \/ type = "PageNotPresent" /\ ~regions[r].pte[p].present
       \/ type = "ProtectionViolation" /\ access = "Write"
          /\ regions[r].pte[p].present /\ ~regions[r].pte[p].writable
    /\ cpus' = [cpus EXCEPT ![c] =
          [IdleCPU EXCEPT !.pc = "handle_fault", !.region = r, !.page = p,
                          !.type = type, !.access = access,
                          !.at_lazy = is_lazy_committed_page(
                              vmobjects[regions[r].m_vmobject].m_physical_pages[p]),
                          !.at_empty =
                              vmobjects[regions[r].m_vmobject].m_physical_pages[p] = NullPage]]
    /\ last' = Step
    /\ UNCHANGED <<vmobjects, regions, pools, committed, content, panic>>

Finish(c, resp) == [cpus EXCEPT ![c].pc = "done", ![c].response = resp, ![c].held = <<>>]
Goto(c, pc) == [cpus EXCEPT ![c].pc = pc]

\* Region::handle_fault up to the dispatch (the slot is read without the
\* VMO lock).
handle_fault(c) ==
    /\ Running
    /\ cpus[c].pc = "handle_fault"
    /\ LET f == cpus[c]
           reg == regions[f.region]
           page_slot == vmobjects[reg.m_vmobject].m_physical_pages[f.page] IN
       IF f.type = "PageNotPresent" THEN
           IF f.access = "Read" /\ ~is_readable(reg) THEN
               /\ cpus' = Finish(c, "ShouldCrash") /\ last' = Step /\ UNCHANGED panic
           ELSE IF f.access = "Write" /\ ~is_writable(reg) THEN
               /\ cpus' = Finish(c, "ShouldCrash") /\ last' = Step /\ UNCHANGED panic
           ELSE IF vmobjects[reg.m_vmobject].is_inode THEN
               /\ cpus' = Goto(c, "handle_inode_fault") /\ last' = Step /\ UNCHANGED panic
           ELSE IF page_slot = NullPage THEN
               /\ panic' = "null page_slot" /\ last' = Step
               /\ UNCHANGED cpus
           ELSE IF is_lazy_committed_page(page_slot) THEN
               /\ cpus' = Goto(c, "allocate_committed_page") /\ last' = Step /\ UNCHANGED panic
           ELSE
               /\ cpus' = Finish(c, "ShouldCrash") /\ last' = Step /\ UNCHANGED panic
       ELSE
           IF f.access = "Write" /\ is_writable(reg) /\ region_should_cow(reg, f.page) THEN
               /\ cpus' = Goto(c, "classify") /\ last' = Step /\ UNCHANGED panic
           ELSE
               /\ cpus' = Finish(c, "ShouldCrash") /\ last' = Step /\ UNCHANGED panic
    /\ UNCHANGED <<vmobjects, regions, pools, committed, content>>

\* Region::handle_fault, the second unlocked read of the slot: zero fault
\* or cow fault.
classify(c) ==
    /\ Running
    /\ cpus[c].pc = "classify"
    /\ LET f == cpus[c]
           phys_page == vmobjects[regions[f.region].m_vmobject].m_physical_pages[f.page] IN
       IF phys_page = NullPage THEN
           /\ panic' = "null phys_page" /\ last' = Step
           /\ UNCHANGED cpus
       ELSE IF is_shared_zero_page(phys_page) \/ is_lazy_committed_page(phys_page) THEN
           /\ cpus' = Goto(c, "handle_zero_fault") /\ last' = Step /\ UNCHANGED panic
       ELSE
           /\ cpus' = Goto(c, "handle_cow_fault") /\ last' = Step /\ UNCHANGED panic
    /\ UNCHANGED <<vmobjects, regions, pools, committed, content>>

\* AnonymousVMObject::allocate_committed_page: the VERIFYs that can fail.
AllocateCommittedPanics(vm, page_index) ==
    vm.m_unused_committed_pages = 0 \/ page_index \in vm.volatile \/ committed = 0

\* AnonymousVMObject::allocate_committed_page on the NotPresent path: the
\* counter is decremented under the VMO lock, the frame comes back in a local.
allocate_committed_page(c) ==
    /\ Running
    /\ cpus[c].pc = "allocate_committed_page"
    /\ LET f == cpus[c]
           v == regions[f.region].m_vmobject
           vm == vmobjects[v] IN
       /\ vm.m_lock = 0
       /\ IF AllocateCommittedPanics(vm, f.page) THEN
              /\ panic' = "allocate_committed_page" /\ last' = Step
              /\ UNCHANGED <<vmobjects, committed, content, cpus>>
          ELSE
              /\ vmobjects' = [vmobjects EXCEPT ![v].m_unused_committed_pages = @ - 1]
              /\ committed' = committed - 1
              /\ content' = [content EXCEPT ![SetMin(FreeFrames)] = 0]
              /\ cpus' = [cpus EXCEPT ![c].pc = "store_slot",
                                      ![c].new_page = SetMin(FreeFrames),
                                      ![c].allocated = @ + 1,
                                      ![c].decremented = @ + 1]
              /\ last' = Step /\ UNCHANGED panic
    /\ UNCHANGED <<regions, pools>>

\* Region::handle_fault line 311: the new frame is stored into the slot
\* (no lock is held).
store_slot(c) ==
    /\ Running
    /\ cpus[c].pc = "store_slot"
    /\ LET f == cpus[c]
           v == regions[f.region].m_vmobject
           vms == [vmobjects EXCEPT ![v].m_physical_pages[f.page] = f.new_page]
           cps == [cpus EXCEPT ![c].pc = "remap", ![c].new_page = NullPage,
                               ![c].response = "Continue"] IN
       /\ vmobjects' = vms
       /\ cpus' = cps
       /\ content' = Scrub(content, vms, cps)
    /\ last' = Step
    /\ UNCHANGED <<regions, pools, committed, panic>>


\* Region::remap_vmobject_page at the end of a handler.  do_remap_vmobject_page
\* VERIFYs that the slot is not null.  `held` is the lock owner the step
\* needs (0: the lock must be free), `strict` says whether a failed remap
\* turns the response into OutOfMemory.
RemapStep(c, held, strict, pt_ok) ==
    LET f == cpus[c]
        v == regions[f.region].m_vmobject
        vm == vmobjects[v] IN
    /\ vm.m_lock = held
    /\ ~pt_ok => NeedsPageTable(v, f.page)
    /\ IF vm.m_physical_pages[f.page] = NullPage
          /\ (\E r \in RegionsOf(v) : regions[r].m_page_directory) THEN
           /\ panic' = "VERIFY(physical_page(page_index))"
           /\ last' = Step
           /\ UNCHANGED <<vmobjects, regions, cpus>>
       ELSE
           /\ regions' = RemapVMObjectPage(regions, vm, v, f.page, pt_ok)
           /\ vmobjects' = [vmobjects EXCEPT ![v].m_lock = 0]
           /\ cpus' = Finish(c, IF strict /\ ~RemapSucceeds(v, f.page, pt_ok)
                                THEN "OutOfMemory" ELSE f.response)
           /\ last' = Step /\ UNCHANGED panic
    /\ UNCHANGED <<pools, committed, content>>

\* Region::handle_fault line 312: remap after the lazy-commit allocation; the
\* result of the remap is ignored.
remap_vmobject_page(c, pt_ok) ==
    /\ Running
    /\ cpus[c].pc = "remap"
    /\ RemapStep(c, 0, FALSE, pt_ok)

\* Region::do_remap_vmobject_page line 208: ScopedSpinLock lock(vmobject().m_lock).
do_remap_lock_vmobject(c) ==
    /\ Running
    /\ cpus[c].pc = "remap"
    /\ LET v == regions[cpus[c].region].m_vmobject IN
       /\ vmobjects[v].m_lock = 0
       /\ vmobjects' = [vmobjects EXCEPT ![v].m_lock = c]
    /\ cpus' = [cpus EXCEPT ![c].pc = "remap_lock_page_directory",
                            ![c].held = Acquire(c, "vmo")]
    /\ last' = Step
    /\ UNCHANGED <<regions, pools, committed, content, panic>>

\* Region::do_remap_vmobject_page line 213: the page directory lock, taken
\* with the VMO lock held.
do_remap_lock_page_directory(c) ==
    /\ Running
    /\ cpus[c].pc = "remap_lock_page_directory"
    /\ LockFree(c, "pd")
    /\ cpus' = [cpus EXCEPT ![c].pc = "remap_lock_mm", ![c].held = Acquire(c, "pd")]
    /\ last' = Step
    /\ UNCHANGED <<vmobjects, regions, pools, committed, content, panic>>

\* Region::map_individual_page_impl line 183: ScopedSpinLock
\* mm_locker(s_mm_lock), taken with the VMO lock and the page directory lock
\* held.
do_remap_lock_mm(c) ==
    /\ Running
    /\ cpus[c].pc = "remap_lock_mm"
    /\ LockFree(c, "mm")
    /\ cpus' = [cpus EXCEPT ![c].pc = "remap_map", ![c].held = Acquire(c, "mm")]
    /\ last' = Step
    /\ UNCHANGED <<vmobjects, regions, pools, committed, content, panic>>

\* Region::map_individual_page_impl lines 185-203 for the Regions of the VMO;
\* the three locks are released on the way out.
do_remap_map(c, pt_ok) ==
    /\ Running
    /\ cpus[c].pc = "remap_map"
    /\ RemapStep(c, c, FALSE, pt_ok)

\* Region::handle_zero_fault lines 340-347: take the VMO lock and look at the
\* slot again.
handle_zero_fault(c) ==
    /\ Running
    /\ cpus[c].pc = "handle_zero_fault"
    /\ LET f == cpus[c]
           v == regions[f.region].m_vmobject
           page_slot == vmobjects[v].m_physical_pages[f.page] IN
       /\ vmobjects[v].m_lock = 0
       /\ vmobjects' = [vmobjects EXCEPT ![v].m_lock = c]
       /\ cpus' = IF page_slot # NullPage /\ ~is_shared_zero_page(page_slot)
                     /\ ~is_lazy_committed_page(page_slot)
                  THEN [cpus EXCEPT ![c].pc = "zero_remap", ![c].response = "Continue"]
                  ELSE Goto(c, "zero_allocate")
    /\ last' = Step
    /\ UNCHANGED <<regions, pools, committed, content, panic>>

\* Region::handle_zero_fault lines 353-364: allocate the frame and store it
\* into the slot, under the VMO lock.
zero_allocate(c) ==
    /\ Running
    /\ cpus[c].pc = "zero_allocate"
    /\ LET f == cpus[c]
           v == regions[f.region].m_vmobject
           vm == vmobjects[v]
           page_slot == vm.m_physical_pages[f.page]
           frame == SetMin(FreeFrames) IN
       IF page_slot = NullPage THEN
           /\ panic' = "null page_slot" /\ last' = Step
           /\ UNCHANGED <<vmobjects, committed, content, cpus>>
       ELSE IF is_lazy_committed_page(page_slot) THEN
           IF AllocateCommittedPanics(vm, f.page) THEN
               /\ panic' = "allocate_committed_page" /\ last' = Step
               /\ UNCHANGED <<vmobjects, committed, content, cpus>>
           ELSE
               /\ vmobjects' = [vmobjects EXCEPT ![v].m_unused_committed_pages = @ - 1,
                                                 ![v].m_physical_pages[f.page] = frame]
               /\ committed' = committed - 1
               /\ content' = [content EXCEPT ![frame] = 0]
               /\ cpus' = [cpus EXCEPT ![c].pc = "zero_remap", ![c].response = "Continue",
                                       ![c].allocated = @ + 1, ![c].decremented = @ + 1]
               /\ last' = Step /\ UNCHANGED panic
       ELSE IF Uncommitted = 0 THEN
           \* allocate_user_physical_page returned null and was assigned to the slot
           LET vms == [vmobjects EXCEPT ![v].m_physical_pages[f.page] = NullPage,
                                        ![v].m_lock = 0]
               cps == Finish(c, "OutOfMemory") IN
           /\ vmobjects' = vms
           /\ cpus' = cps
           /\ content' = Scrub(content, vms, cps)
           /\ last' = Step /\ UNCHANGED <<committed, panic>>
       ELSE
           LET vms == [vmobjects EXCEPT ![v].m_physical_pages[f.page] = frame]
               cps == [cpus EXCEPT ![c].pc = "zero_remap", ![c].response = "Continue",
                                   ![c].allocated = @ + 1] IN
           /\ vmobjects' = vms
           /\ cpus' = cps
           /\ content' = Scrub([content EXCEPT ![frame] = 0], vms, cps)
           /\ last' = Step /\ UNCHANGED <<committed, panic>>
    /\ UNCHANGED <<regions, pools>>

\* Region::handle_zero_fault lines 344-346 and 366-370.
zero_remap(c, pt_ok) ==
    /\ Running
    /\ cpus[c].pc = "zero_remap"
    /\ RemapStep(c, c, TRUE, pt_ok)

\* safe_memcpy faults on the source when the faulting Region's page has no
\* present page-table entry any more.
CopyFaults(reg, p) == ~reg.pte[p].present

\* What safe_memcpy reads through the faulting Region's mapping; after a
\* fault the destination frame (allocated with ShouldZeroFill::No) holds
\* anything.
ReadThrough(reg, p) ==
    IF CopyFaults(reg, p) THEN Values
    ELSE IF IsNormal(reg.pte[p].frame) THEN {content[reg.pte[p].frame]} ELSE {0}

\* AnonymousVMObject::handle_cow_fault, under the VMO lock.
handle_cow_fault(c) ==
    /\ Running
    /\ cpus[c].pc = "handle_cow_fault"
    /\ LET f == cpus[c]
           reg == regions[f.region]
           v == reg.m_vmobject
           vm == vmobjects[v]
           page_slot == vm.m_physical_pages[f.page]
           k == vm.m_shared_committed_cow_pages
           have_committed == k # 0 /\ is_nonvolatile(vm, f.page)
           frame == SetMin(FreeFrames) IN
       /\ vm.m_lock = 0
       /\ IF page_slot = NullPage THEN
              /\ panic' = "null page_slot" /\ last' = Step
              /\ UNCHANGED <<vmobjects, pools, committed, content, cpus>>
          ELSE IF have_committed /\ pools[k] = 0 THEN
              \* CommittedCowPages::return_one / allocate_one: VERIFY(m_committed_pages > 0)
              /\ panic' = "VERIFY(m_committed_pages > 0)"
              /\ last' = Step
              /\ UNCHANGED <<vmobjects, pools, committed, content, cpus>>
          ELSE IF ref_count(page_slot) = 1 THEN
              LET drained == have_committed /\ pools[k] - 1 = 0
                  vms == [vmobjects EXCEPT
                             ![v].m_cow_map = set_should_cow(vm.m_cow_map, f.page, FALSE),
                             ![v].m_shared_committed_cow_pages = IF drained THEN 0 ELSE @] IN
              /\ vmobjects' = vms
              /\ pools' = IF have_committed THEN [pools EXCEPT ![k] = @ - 1] ELSE pools
              /\ committed' = IF have_committed THEN committed - 1 ELSE committed
              /\ cpus' = [cpus EXCEPT ![c].pc = "cow_remap", ![c].response = "Continue"]
              /\ last' = Step /\ UNCHANGED <<content, panic>>
          ELSE IF ~have_committed /\ Uncommitted = 0 THEN
              /\ cpus' = [cpus EXCEPT ![c].pc = "cow_remap", ![c].response = "OutOfMemory"]
              /\ last' = Step /\ UNCHANGED <<vmobjects, pools, committed, content, panic>>
          ELSE
              LET vms == [vmobjects EXCEPT
                             ![v].m_physical_pages[f.page] = frame,
                             ![v].m_cow_map = set_should_cow(vm.m_cow_map, f.page, FALSE)]
                  \* lines 418-428: a failed safe_memcpy is only logged
                  cps == [cpus EXCEPT ![c].pc = "cow_remap", ![c].response = "Continue",
                                      ![c].copy_faulted = CopyFaults(reg, f.page),
                                      ![c].allocated = @ + 1] IN
              /\ vmobjects' = vms
              /\ pools' = IF have_committed THEN [pools EXCEPT ![k] = @ - 1] ELSE pools
              /\ committed' = IF have_committed THEN committed - 1 ELSE committed
              /\ cpus' = cps
              /\ \E val \in ReadThrough(reg, f.page) :
                     content' = Scrub([content EXCEPT ![frame] = val], vms, cps)
              /\ last' = Step /\ UNCHANGED panic
    /\ UNCHANGED regions

\* A Region::handle_cow_fault that remaps and returns Continue whatever the
\* VMO's handler returned.
cow_remap_continues(c, pt_ok) ==
    /\ Running
    /\ cpus[c].pc = "cow_remap"
    /\ LET v == regions[cpus[c].region].m_vmobject IN
       /\ vmobjects[v].m_lock = 0
       /\ ~pt_ok => NeedsPageTable(v, cpus[c].page)
       /\ regions' = RemapVMObjectPage(regions, vmobjects[v], v, cpus[c].page, pt_ok)
    /\ cpus' = Finish(c, "Continue")
    /\ last' = Step
    /\ UNCHANGED <<vmobjects, pools, committed, content, panic>>

\* Region::handle_cow_fault lines 385-387.
cow_remap(c, pt_ok) ==
    /\ Running
    /\ cpus[c].pc = "cow_remap"
    /\ RemapStep(c, 0, TRUE, pt_ok)

\* Region::handle_inode_fault lines 392-407: the entry checks, with no lock
\* held.
handle_inode_fault(c) ==
    /\ Running
    /\ cpus[c].pc = "handle_inode_fault"
    /\ LET f == cpus[c]
           vmobject_physical_page_entry ==
               vmobjects[regions[f.region].m_vmobject].m_physical_pages[f.page] IN
       IF Holds(c, "mm") THEN
           /\ panic' = "VERIFY(!s_mm_lock.own_lock())" /\ last' = Step
           /\ UNCHANGED cpus
       ELSE IF vmobject_physical_page_entry # NullPage THEN
           /\ panic' = "VERIFY(vmobject_physical_page_entry.is_null())" /\ last' = Step
           /\ UNCHANGED cpus
       ELSE
           /\ cpus' = Goto(c, "inode_read") /\ last' = Step /\ UNCHANGED panic
    /\ UNCHANGED <<vmobjects, regions, pools, committed, content>>

\* The bytes of a page, offsets 1..PageSize; every byte of the inode's file
\* is InodeByte.
ByteOffsets == 1..PageSize
InodeByte == MaxVal

\* Inode::read_bytes: the first nread bytes of the buffer come from the file,
\* the rest of the buffer is left as it was.
read_bytes(buffer, nread) ==
    [i \in ByteOffsets |-> IF i <= nread THEN InodeByte ELSE buffer[i]]

\* A handler that leaves the tail of the buffer as the read left it.
memset_tail_skipped(buffer, nread) == buffer

\* Region::handle_inode_fault lines 420-423: zero the buffer past the bytes
\* read.
memset_tail(buffer, nread) ==
    IF nread < PageSize
    THEN [i \in ByteOffsets |-> IF i > nread THEN 0 ELSE buffer[i]]
    ELSE buffer

\* Region::handle_inode_fault lines 409-423: inode.read_bytes into the kernel
\* buffer (a local array that starts out holding anything), which may block,
\* may fail and may return fewer than PageSize bytes; no lock is held.
inode_read(c, read_ok, nread) ==
    /\ Running
    /\ cpus[c].pc = "inode_read"
    /\ \E page_buffer \in [ByteOffsets -> Values] :
          cpus' = IF read_ok
                  THEN [cpus EXCEPT ![c].pc = "inode_publish",
                                    ![c].nread = nread,
                                    ![c].page_buffer =
                                        memset_tail(read_bytes(page_buffer, nread), nread)]
                  ELSE Finish(c, "ShouldCrash")
    /\ last' = Step
    /\ UNCHANGED <<vmobjects, regions, pools, committed, content, panic>>

\* Region::handle_inode_fault lines 425-443: take the VMO lock, look at the
\* slot again, allocate a frame and fill it from the buffer.
inode_publish(c) ==
    /\ Running
    /\ cpus[c].pc = "inode_publish"
    /\ LET f == cpus[c]
           v == regions[f.region].m_vmobject
           vm == vmobjects[v]
           frame == SetMin(FreeFrames) IN
       /\ vm.m_lock = 0
       /\ IF vm.m_physical_pages[f.page] # NullPage THEN
              \* page faulted in by someone else
              /\ vmobjects' = [vmobjects EXCEPT ![v].m_lock = c]
              /\ cpus' = [cpus EXCEPT ![c].pc = "inode_remap_filled",
                                      ![c].response = "Continue"]
              /\ UNCHANGED content
          ELSE IF Uncommitted = 0 THEN
              /\ cpus' = Finish(c, "OutOfMemory")
              /\ UNCHANGED <<vmobjects, content>>
          ELSE
              /\ vmobjects' = [vmobjects EXCEPT ![v].m_physical_pages[f.page] = frame,
                                                ![v].m_lock = c]
              /\ content' = [content EXCEPT ![frame] = f.page_buffer]
              /\ cpus' = [cpus EXCEPT ![c].pc = "inode_remap", ![c].response = "Continue",
                                      ![c].allocated = @ + 1]
    /\ last' = Step
    /\ UNCHANGED <<regions, pools, committed, panic>>

\* Region::handle_inode_fault lines 428-431: the slot was filled by another
\* fault; remap, OutOfMemory when the remap fails.
inode_remap_filled(c, pt_ok) ==
    /\ Running
    /\ cpus[c].pc = "inode_remap_filled"
    /\ RemapStep(c, c, TRUE, pt_ok)

\* Region::handle_inode_fault lines 445-446: remap after publishing; the
\* result of the remap is ignored.
inode_remap(c, pt_ok) ==
    /\ Running
    /\ cpus[c].pc = "inode_remap"
    /\ RemapStep(c, c, FALSE, pt_ok)

\* The handler returns to the faulting thread.
FaultReturn(c) ==
    /\ Running
    /\ cpus[c].pc = "done"
    /\ cpus' = [cpus EXCEPT ![c] = IdleCPU]
    /\ last' = Step
    /\ UNCHANGED <<vmobjects, regions, pools, committed, content, panic>>

\* ------------------------------------------------------ purgeable ranges
\* A VolatilePageRange [base, base + count) inside the VMO.
Ranges == {rg \in [base : Pages, count : 1..NPages] : rg.base + rg.count <= NPages}
RangePages(rg) == {p \in Pages : rg.base <= p /\ p < rg.base + rg.count}

\* for_each_volatile_range: the maximal runs of volatile pages.
VolatileRanges(vol) ==
    {rg \in Ranges : /\ RangePages(rg) \subseteq vol
                     /\ (rg.base - 1) \notin vol
                     /\ (rg.base + rg.count) \notin vol}

\* AnonymousVMObject::remove_lazy_commit_pages, pages i .. end - 1.
RECURSIVE remove_lazy_commit_pages(_, _, _, _, _)
remove_lazy_commit_pages(pp, unused, i, end, removed) ==
    IF i >= end THEN [pages |-> pp, unused |-> unused, removed |-> removed]
    ELSE IF pp[i] # NullPage /\ is_lazy_committed_page(pp[i]) THEN
        IF unused - 1 = 0
        THEN [pages |-> [pp EXCEPT ![i] = SharedZero], unused |-> 0, removed |-> removed + 1]
        ELSE remove_lazy_commit_pages([pp EXCEPT ![i] = SharedZero], unused - 1, i + 1, end, removed + 1)
    ELSE remove_lazy_commit_pages(pp, unused, i + 1, end, removed)

\* AnonymousVMObject::range_made_volatile: the slots, the counter and the
\* number of pages to uncommit.
range_made_volatile(vm, rg) ==
    IF vm.m_unused_committed_pages = 0
    THEN [pages |-> vm.m_physical_pages, unused |-> 0, removed |-> 0]
    ELSE remove_lazy_commit_pages(vm.m_physical_pages, vm.m_unused_committed_pages,
                                  rg.base, rg.base + rg.count, 0)

\* PurgeablePageRanges::add_volatile_range followed by range_made_volatile.
MakeVolatile(v, rg) ==
    /\ Running /\ AllIdle
    /\ vmobjects[v].alive
    /\ ~(RangePages(rg) \subseteq vmobjects[v].volatile)
    /\ LET vm == [vmobjects[v] EXCEPT !.volatile = @ \cup RangePages(rg)]
           res == range_made_volatile(vm, rg) IN
       /\ vmobjects' = [vmobjects EXCEPT ![v] =
              [vm EXCEPT !.m_physical_pages = res.pages,
                         !.m_unused_committed_pages = res.unused]]
       /\ committed' = committed - res.removed
       /\ last' = Step
    /\ UNCHANGED <<regions, pools, content, cpus, panic>>

\* AnonymousVMObject::count_needed_commit_pages_for_nonvolatile_range
count_needed_commit_pages_for_nonvolatile_range(vm, pages) ==
    Cardinality({p \in pages :
        /\ ~(~vm.m_cow_map.is_null /\ vm.m_cow_map.bits[p])
        /\ vm.m_physical_pages[p] # NullPage
        /\ is_shared_zero_page(vm.m_physical_pages[p])})

\* mark_committed_pages_for_nonvolatile_range marking whatever is SharedZero,
\* cow bit or not.
mark_committed_pages_ignoring_cow(vm, pages) ==
    [vm EXCEPT
        !.m_physical_pages = [p \in Pages |->
            IF p \in pages /\ vm.m_physical_pages[p] # NullPage
               /\ is_shared_zero_page(vm.m_physical_pages[p])
            THEN LazyCommitted ELSE vm.m_physical_pages[p]],
        !.m_unused_committed_pages =
            @ + count_needed_commit_pages_for_nonvolatile_range(vm, pages)]

\* AnonymousVMObject::mark_committed_pages_for_nonvolatile_range over the
\* pages of the range (all needed pages are marked: mark_total is their count).
mark_committed_pages_for_nonvolatile_range(vm, pages) ==
    [vm EXCEPT
        !.m_physical_pages = [p \in Pages |->
            IF p \in pages /\ ~(~vm.m_cow_map.is_null /\ vm.m_cow_map.bits[p])
               /\ vm.m_physical_pages[p] # NullPage /\ is_shared_zero_page(vm.m_physical_pages[p])
            THEN LazyCommitted ELSE vm.m_physical_pages[p]],
        !.m_unused_committed_pages =
            @ + count_needed_commit_pages_for_nonvolatile_range(vm, pages)]

\* PurgeablePageRanges::remove_volatile_range: commit what the range needs,
\* mark the pages lazy-committed, then drop the range.
MakeNonVolatile(v, rg) ==
    /\ Running /\ AllIdle
    /\ vmobjects[v].alive
    /\ RangePages(rg) \cap vmobjects[v].volatile # {}
    /\ LET vm == vmobjects[v]
           pages == RangePages(rg)
           need == count_needed_commit_pages_for_nonvolatile_range(vm, pages) IN
       IF need > 0 /\ ~CanCommit(need) THEN
           /\ last' = Op("nonvolatile", FALSE, 0, v, 0, need, "OutOfMemory")
           /\ UNCHANGED <<vmobjects, committed>>
       ELSE
           /\ vmobjects' = [vmobjects EXCEPT ![v] =
                  [mark_committed_pages_for_nonvolatile_range(vm, pages)
                      EXCEPT !.volatile = @ \ RangePages(rg)]]
           /\ committed' = committed + need
           /\ last' = Op("nonvolatile", TRUE, 0, v, 0, need, "none")
    /\ UNCHANGED <<regions, pools, content, cpus, panic>>

\* purge counting every slot of the range that is not null.
PurgedIn_every_slot(vm, rg) ==
    {p \in RangePages(rg) : vm.m_physical_pages[p] # NullPage}

\* AnonymousVMObject::purge: the pages that lose a frame, per volatile range.
PurgedIn(vm, rg) ==
    {p \in RangePages(rg) : vm.m_physical_pages[p] # NullPage
                            /\ ~is_shared_zero_page(vm.m_physical_pages[p])}

PurgedRanges(vm) == {rg \in VolatileRanges(vm.volatile) : PurgedIn(vm, rg) # {}}
PurgedPages(vm) == UNION {PurgedIn(vm, rg) : rg \in VolatileRanges(vm.volatile)}

\* purge leaving the page tables of the Regions as they are.
RemapPurged_skipped(regs, vm, v, pages) == regs

\* Region::remap_vmobject_page_range for every Region of the VMO, over the
\* ranges that lost a frame.
RemapPurged(regs, vm, v, pages) ==
    [r \in Regions |->
        IF regs[r].alive /\ regs[r].m_vmobject = v /\ regs[r].m_page_directory
        THEN [regs[r] EXCEPT !.pte = [p \in Pages |->
                 IF p \in pages THEN map_individual_page_impl(regs[r], vm, p) ELSE @[p]]]
        ELSE regs[r]]

purge(v) ==
    /\ Running /\ AllIdle
    /\ vmobjects[v].alive
    /\ vmobjects[v].volatile # {}
    /\ LET vm == vmobjects[v]
           after == [vm EXCEPT !.m_physical_pages =
                        [p \in Pages |-> IF p \in vm.volatile THEN SharedZero ELSE @[p]]]
           vms == [vmobjects EXCEPT ![v] = after]
           remapped == UNION {RangePages(rg) : rg \in PurgedRanges(vm)} IN
       IF \E p \in PurgedPages(vm) : is_lazy_committed_page(vm.m_physical_pages[p]) THEN
           /\ panic' = "VERIFY(!phys_page->is_lazy_committed_page())"
           /\ last' = Step
           /\ UNCHANGED <<vmobjects, regions, content>>
       ELSE
           /\ vmobjects' = vms
           /\ regions' = RemapPurged(regions, after, v, remapped)
           /\ content' = Scrub(content, vms, cpus)
           /\ last' = Op("purge", TRUE, 0, v, 0, Cardinality(PurgedPages(vm)), "none")
           /\ UNCHANGED panic
    /\ UNCHANGED <<pools, committed, cpus>>

\* ------------------------------------------------------------------- Next
Strategies == {"Reserve", "AllocateNow", "None"}
FaultTypes == {"PageNotPresent", "ProtectionViolation"}
Accesses == {"Read", "Write"}

\* The steps of the lazy-commit path of Region::handle_fault.
LazyCommitStep ==
    \/ \E c \in CPUs : allocate_committed_page(c)
    \/ \E c \in CPUs : store_slot(c)
    \/ \E c \in CPUs, pt_ok \in BOOLEAN : remap_vmobject_page(c, pt_ok)

\* Region::handle_fault's dispatch, the zero-fault handler and the return.
ZeroStep ==
    \/ \E c \in CPUs : handle_fault(c)
    \/ \E c \in CPUs : classify(c)
    \/ \E c \in CPUs : handle_zero_fault(c)
    \/ \E c \in CPUs : zero_allocate(c)
    \/ \E c \in CPUs, pt_ok \in BOOLEAN : zero_remap(c, pt_ok)
    \/ \E c \in CPUs : FaultReturn(c)

\* The steps of the cow-fault handler.
CowStep ==
    \/ \E c \in CPUs : handle_cow_fault(c)
    \/ \E c \in CPUs, pt_ok \in BOOLEAN : cow_remap(c, pt_ok)

\* The steps of the page-fault handlers.
HandlerStep == LazyCommitStep \/ ZeroStep \/ CowStep

\* How many VMOs have been created by try_create_with_size or try_clone, and
\* how many Regions have been created, so far.
VMOsMade == Cardinality({v \in VMOs : vmobjects[v].ever})
RegionsMade == Cardinality({r \in Regions : regions[r].ever})

\* A page fault taken while no other handler runs.
Fault ==
    AllIdle /\ \E c \in CPUs, r \in Regions, p \in Pages, type \in FaultTypes, access \in Accesses :
        FaultRaise(c, r, p, type, access)

\* Fork and teardown: one VMO made by try_create_with_size with any commit
\* strategy, its private read/write Regions, clones, page faults one at a
\* time, destruction; every allocation may fail.
ForkRoots == 1
ForkRegions == 1

Next ==
    \/ /\ VMOsMade < ForkRoots
       /\ \E strategy \in Strategies, heap_ok \in BOOLEAN : try_create_with_size(strategy, heap_ok)
    \/ \E v \in VMOs : DestroyVMO(v)
    \/ /\ RegionsMade < ForkRegions
       /\ \E v \in VMOs : try_create_user_accessible(v, <<TRUE, TRUE>>, FALSE)
    \/ \E r \in Regions, k \in 0..NPages : map(r, k)
    \/ \E r \in Regions : DestroyRegion(r)
    \/ \E r \in Regions, pool_ok \in BOOLEAN, vmo_ok \in BOOLEAN : clone(r, pool_ok, vmo_ok)
    \/ Fault
    \/ HandlerStep

Spec == Init /\ [][Next]_vars

\* Purgeable memory: volatile and non-volatile transitions and purge on one
\* VMO mapped by private and shared Regions, shared-Region clones, page
\* faults one at a time.
PurgeRoots == 1
PurgeRegions == 2

NextPurge ==
    \/ /\ VMOsMade < PurgeRoots
       /\ \E strategy \in Strategies : try_create_with_size(strategy, TRUE)
    \/ /\ RegionsMade < PurgeRegions
       /\ \E v \in VMOs, shared \in BOOLEAN : try_create_user_accessible(v, <<TRUE, TRUE>>, shared)
    \/ \E r \in Regions, k \in 0..NPages : map(r, k)
    \/ \E r \in Regions : clone_shared(r)
    \/ \E v \in VMOs, rg \in Ranges : MakeVolatile(v, rg)
    \/ \E v \in VMOs, rg \in Ranges : MakeNonVolatile(v, rg)
    \/ \E v \in VMOs : purge(v)
    \/ Fault
    \/ LazyCommitStep
    \/ ZeroStep

SpecPurge == Init /\ [][NextPurge]_vars

\* Several Regions of one address space mapping the same VMO, and the data
\* seen through them: stores through writable entries, clones, page faults.
AliasRoots == 1

NextAlias ==
    \/ /\ VMOsMade < AliasRoots
       /\ try_create_with_size("None", TRUE)
    \/ \E v \in VMOs : try_create_user_accessible(v, <<TRUE, TRUE>>, FALSE)
    \/ \E r \in Regions : map(r, NPages)
    \/ \E r \in Regions, p \in Pages, val \in Values : UserWrite(r, p, val)
    \/ \E r \in Regions : clone(r, TRUE, TRUE)
    \/ Fault
    \/ ZeroStep
    \/ CowStep

SpecAlias == Init /\ [][NextAlias]_vars

\* Page faults on two CPUs at once, against one VMO created lazily committed
\* or shared-zero and mapped read/write by private Regions.
RaceVMOs == 1
RaceRegions == 2

NextRace ==
    \/ /\ VMOsMade < RaceVMOs
       /\ \E strategy \in {"Reserve", "None"} : try_create_with_size(strategy, TRUE)
    \/ /\ RegionsMade < RaceRegions
       /\ \E v \in VMOs : try_create_user_accessible(v, <<TRUE, TRUE>>, FALSE)
    \/ \E r \in Regions, k \in 0..NPages : map(r, k)
    \/ \E c \in CPUs, r \in Regions, p \in Pages, type \in FaultTypes, access \in Accesses : FaultRaise(c, r, p, type, access)
    \/ HandlerStep

SpecRace == Init /\ [][NextRace]_vars

\* A Region unmapped by one thread while another CPU handles a write fault
\* on it: one VMO with frames in place or shared-zero, its private read/write
\* Region, a clone, page faults one at a time.
UnmapRoots == 1
UnmapRegions == 1

NextUnmap ==
    \/ /\ VMOsMade < UnmapRoots
       /\ \E strategy \in {"AllocateNow", "None"} : try_create_with_size(strategy, TRUE)
    \/ /\ RegionsMade < UnmapRegions
       /\ \E v \in VMOs : try_create_user_accessible(v, <<TRUE, TRUE>>, FALSE)
    \/ \E r \in Regions : map(r, NPages)
    \/ \E r \in Regions, deallocate_range \in BOOLEAN, contains \in BOOLEAN :
          unmap(r, deallocate_range, contains)
    \/ \E r \in Regions : clone(r, TRUE, TRUE)
    \/ Fault
    \/ ZeroStep
    \/ CowStep

SpecUnmap == Init /\ [][NextUnmap]_vars

\* The locks taken by Region::clone on one CPU and by the lazy-commit fault
\* path on another: one VMO, its private or shared read/write Region, each
\* lock acquisition a step of its own.
LockRoots == 1
LockRegions == 1

NextLocks ==
    \/ /\ VMOsMade < LockRoots
       /\ \E strategy \in {"Reserve", "AllocateNow"} : try_create_with_size(strategy, TRUE)
    \/ /\ RegionsMade < LockRegions
       /\ \E v \in VMOs, shared \in BOOLEAN : try_create_user_accessible(v, <<TRUE, TRUE>>, shared)
    \/ \E r \in Regions, k \in 0..NPages : map(r, k)
    \/ \E c \in CPUs, r \in Regions : clone_enter(c, r)
    \/ \E c \in CPUs : clone_lock_vmobject(c)
    \/ \E c \in CPUs : clone_try_clone(c)
    \/ \E c \in CPUs : clone_remap(c)
    \/ \E c \in CPUs : clone_create(c)
    \/ \E c \in CPUs, r \in Regions, p \in Pages, access \in Accesses :
          FaultRaise(c, r, p, "PageNotPresent", access)
    \/ \E c \in CPUs : handle_fault(c)
    \/ \E c \in CPUs : allocate_committed_page(c)
    \/ \E c \in CPUs : store_slot(c)
    \/ \E c \in CPUs : do_remap_lock_vmobject(c)
    \/ \E c \in CPUs : do_remap_lock_page_directory(c)
    \/ \E c \in CPUs : do_remap_lock_mm(c)
    \/ \E c \in CPUs, pt_ok \in BOOLEAN : do_remap_map(c, pt_ok)
    \/ \E c \in CPUs : FaultReturn(c)

SpecLocks == Init /\ [][NextLocks]_vars

\* Volatile and non-volatile transitions under memory pressure and with cow
\* bits: one VMO, a private read/write Region, a clone, transitions and
\* purge on both VMOs; try_create_with_size may fail after it has committed.
ThawRoots == 1
ThawRegions == 1

NextThaw ==
    \/ /\ VMOsMade < ThawRoots
       /\ \E strategy \in Strategies, heap_ok \in BOOLEAN : try_create_with_size(strategy, heap_ok)
    \/ /\ RegionsMade < ThawRegions
       /\ \E v \in VMOs : try_create_user_accessible(v, <<TRUE, TRUE>>, FALSE)
    \/ \E r \in Regions : map(r, NPages)
    \/ \E r \in Regions : clone(r, TRUE, TRUE)
    \/ \E v \in VMOs, rg \in Ranges : MakeVolatile(v, rg)
    \/ \E v \in VMOs, rg \in Ranges : MakeNonVolatile(v, rg)
    \/ \E v \in VMOs : purge(v)

SpecThaw == Init /\ [][NextThaw]_vars

\* A range made volatile after page faults have run on two CPUs at once: one
\* lazily committed VMO and its private read/write Region.
MadviseRoots == 1
MadviseRegions == 1

NextMadvise ==
    \/ /\ VMOsMade < MadviseRoots
       /\ try_create_with_size("Reserve", TRUE)
    \/ /\ RegionsMade < MadviseRegions
       /\ \E v \in VMOs : try_create_user_accessible(v, <<TRUE, TRUE>>, FALSE)
    \/ \E r \in Regions, k \in 0..NPages : map(r, k)
    \/ \E c \in CPUs, r \in Regions, p \in Pages, type \in FaultTypes, access \in Accesses : FaultRaise(c, r, p, type, access)
    \/ LazyCommitStep
    \/ ZeroStep
    \/ \E v \in VMOs, rg \in Ranges : MakeVolatile(v, rg)

SpecMadvise == Init /\ [][NextMadvise]_vars

\* Page faults on two CPUs at once against an inode-backed VMO mapped by
\* private read/write Regions.
InodeRoots == 1
InodeRegions == 2

NextInode ==
    \/ /\ VMOsMade < InodeRoots
       /\ try_create_with_inode
    \/ /\ RegionsMade < InodeRegions
       /\ \E v \in VMOs : try_create_user_accessible(v, <<TRUE, TRUE>>, FALSE)
    \/ \E r \in Regions, k \in 0..NPages : map(r, k)
    \/ \E c \in CPUs, r \in Regions, p \in Pages, access \in Accesses :
          FaultRaise(c, r, p, "PageNotPresent", access)
    \/ \E c \in CPUs : handle_fault(c)
    \/ \E c \in CPUs : handle_inode_fault(c)
    \/ \E c \in CPUs, read_ok \in BOOLEAN : inode_read(c, read_ok, PageSize)
    \/ \E c \in CPUs : inode_publish(c)
    \/ \E c \in CPUs, pt_ok \in BOOLEAN : inode_remap_filled(c, pt_ok)
    \/ \E c \in CPUs, pt_ok \in BOOLEAN : inode_remap(c, pt_ok)
    \/ \E c \in CPUs : FaultReturn(c)

SpecInode == Init /\ [][NextInode]_vars

\* Regions of every access mode over one VMO, and the faults taken through
\* them one at a time.
AccessRoots == 1
AccessRegions == 2

NextAccess ==
    \/ /\ VMOsMade < AccessRoots
       /\ \E strategy \in Strategies : try_create_with_size(strategy, TRUE)
    \/ /\ RegionsMade < AccessRegions
       /\ \E v \in VMOs, access \in AccessModes : try_create_user_accessible(v, access, FALSE)
    \/ \E r \in Regions, k \in 0..NPages : map(r, k)
    \/ Fault
    \/ LazyCommitStep
    \/ ZeroStep

SpecAccess == Init /\ [][NextAccess]_vars

\* The life of lazily committed VMOs that are never cloned: creation, page
\* faults one at a time, volatile and non-volatile transitions, purge,
\* destruction of the Regions and of the VMOs.
DtorRoots == 2
DtorRegions == 1

NextDtor ==
    \/ /\ VMOsMade < DtorRoots
       /\ try_create_with_size("Reserve", TRUE)
    \/ \E v \in VMOs : DestroyVMO(v)
    \/ /\ RegionsMade < DtorRegions
       /\ \E v \in VMOs : RegionsOf(v) = {} /\ try_create_user_accessible(v, <<TRUE, TRUE>>, FALSE)
    \/ \E r \in Regions, k \in 0..NPages : map(r, k)
    \/ \E r \in Regions : DestroyRegion(r)
    \/ \E v \in VMOs, rg \in Ranges : MakeVolatile(v, rg)
    \/ \E v \in VMOs, rg \in Ranges : MakeNonVolatile(v, rg)
    \/ \E v \in VMOs : purge(v)
    \/ Fault
    \/ LazyCommitStep
    \/ ZeroStep

SpecDtor == Init /\ [][NextDtor]_vars

\* Creation under memory pressure: VMOs of every commit strategy, creations
\* that fail on the commit or on the heap, a Region, page faults one at a
\* time, destruction.
CreateRoots == 2
CreateRegions == 1

NextCreate ==
    \/ /\ VMOsMade < CreateRoots
       /\ \E strategy \in Strategies, heap_ok \in BOOLEAN : try_create_with_size(strategy, heap_ok)
    \/ \E v \in VMOs : DestroyVMO(v)
    \/ /\ RegionsMade < CreateRegions
       /\ \E v \in VMOs : try_create_user_accessible(v, <<TRUE, TRUE>>, FALSE)
    \/ \E r \in Regions, k \in 0..NPages : map(r, k)
    \/ \E r \in Regions : DestroyRegion(r)
    \/ Fault
    \/ LazyCommitStep
    \/ ZeroStep

SpecCreate == Init /\ [][NextCreate]_vars

\* Page faults one at a time against an inode-backed VMO whose file may end
\* inside a page and whose reads may fail.
ReadRoots == 1
ReadRegions == 2

NextRead ==
    \/ /\ VMOsMade < ReadRoots
       /\ try_create_with_inode
    \/ /\ RegionsMade < ReadRegions
       /\ \E v \in VMOs : try_create_user_accessible(v, <<TRUE, TRUE>>, FALSE)
    \/ \E r \in Regions, k \in 0..NPages : map(r, k)
    \/ /\ AllIdle
       /\ \E c \in CPUs, r \in Regions, p \in Pages, access \in Accesses :
             FaultRaise(c, r, p, "PageNotPresent", access)
    \/ \E c \in CPUs : handle_fault(c)
    \/ \E c \in CPUs : handle_inode_fault(c)
    \/ \E c \in CPUs, read_ok \in BOOLEAN, nread \in 0..PageSize : inode_read(c, read_ok, nread)
    \/ \E c \in CPUs : inode_publish(c)
    \/ \E c \in CPUs, pt_ok \in BOOLEAN : inode_remap(c, pt_ok)
    \/ \E c \in CPUs : FaultReturn(c)

SpecRead == Init /\ [][NextRead]_vars

\* Regions and the region lists of the VMOs: Regions made, moved between
\* VMOs by set_vmobject, cloned and destroyed.
ListRoots == 2

NextList ==
    \/ /\ VMOsMade < ListRoots
       /\ \E strategy \in {"AllocateNow", "None"} : try_create_with_size(strategy, TRUE)
    \/ \E v \in VMOs : DestroyVMO(v)
    \/ \E v \in VMOs, shared \in BOOLEAN : try_create_user_accessible(v, <<TRUE, TRUE>>, shared)
    \/ \E r \in Regions : map(r, NPages)
    \/ \E r \in Regions, obj \in VMOs : set_vmobject(r, obj)
    \/ \E r \in Regions : clone_shared(r)
    \/ \E r \in Regions : clone(r, TRUE, TRUE)
    \/ \E r \in Regions : DestroyRegion(r)

SpecList == Init /\ [][NextList]_vars

\* Fork of Regions of every kind: one VMO, Regions of any range, access,
\* cacheable and shared flag, tagged or not as mmap and syscall Regions,
\* clones on the shared and on the private path.
KinRoots == 1
KinRegions == 1

NextKin ==
    \/ /\ VMOsMade < KinRoots
       /\ \E strategy \in {"Reserve", "AllocateNow"} : try_create_with_size(strategy, TRUE)
    \/ /\ RegionsMade < KinRegions
       /\ \E range \in VirtualRanges, v \in VMOs, access \in AccessModes,
             cacheable \in BOOLEAN, shared \in BOOLEAN :
             try_create_user_accessible_in(range, v, access, cacheable, shared)
    \/ \E r \in Regions, mmap \in BOOLEAN : set_mmap(r, mmap)
    \/ \E r \in Regions, b \in BOOLEAN : set_syscall_region(r, b)
    \/ \E r \in Regions : map(r, NPages)
    \/ \E r \in Regions : clone_shared(r)
    \/ \E r \in Regions : clone(r, TRUE, TRUE)

SpecKin == Init /\ [][NextKin]_vars

\* Copy-on-write faults with no memory left: one VMO with its frames in
\* place, a creation that failed after committing, volatile ranges, a clone,
\* page faults one at a time.
StarveRoots == 1
StarveRegions == 1

NextStarve ==
    \/ /\ VMOsMade < StarveRoots
       /\ \E heap_ok \in BOOLEAN : try_create_with_size("AllocateNow", heap_ok)
    \/ /\ RegionsMade < StarveRegions
       /\ \E v \in VMOs : try_create_user_accessible(v, <<TRUE, TRUE>>, FALSE)
    \/ \E r \in Regions : map(r, NPages)
    \/ \E v \in VMOs, rg \in Ranges : MakeVolatile(v, rg)
    \/ \E r \in Regions : clone(r, TRUE, TRUE)
    \/ Fault
    \/ \E c \in CPUs : handle_fault(c)
    \/ \E c \in CPUs : classify(c)
    \/ \E c \in CPUs : FaultReturn(c)
    \/ CowStep

SpecStarve == Init /\ [][NextStarve]_vars

\* Page-table entries: one VMO mapped by a private read/write Region and by a
\* Region of any access mode, shared or private; clones of the private ones,
\* page faults one at a time.
EntryRoots == 1
EntryRegions == 2

NextEntry ==
    \/ /\ VMOsMade < EntryRoots
       /\ try_create_with_size("None", TRUE)
    \/ /\ RegionsMade = 0
       /\ \E v \in VMOs : try_create_user_accessible(v, <<TRUE, TRUE>>, FALSE)
    \/ /\ RegionsMade > 0 /\ RegionsMade < EntryRegions
       /\ \E v \in VMOs, access \in AccessModes, shared \in BOOLEAN :
             try_create_user_accessible(v, access, shared)
    \/ \E r \in Regions : map(r, NPages)
    \/ \E r \in Regions : clone(r, TRUE, TRUE)
    \/ Fault
    \/ ZeroStep
    \/ CowStep

SpecEntry == Init /\ [][NextEntry]_vars

\* ================================================================ claims

\* The VMO a handler works on, and the slot it faulted on.
FaultVMO(c) == regions[cpus[c].region].m_vmobject
Finished(c) == cpus[c].pc = "done"

\* Two handlers, both finished and not yet returned, for faults taken on the
\* same page of the same VMO while its slot held LazyCommitted.
SameLazyPage(c1, c2) ==
    /\ c1 # c2
    /\ Finished(c1) /\ Finished(c2)
    /\ regions[cpus[c1].region].alive /\ regions[cpus[c2].region].alive
    /\ FaultVMO(c1) = FaultVMO(c2)
    /\ cpus[c1].page = cpus[c2].page
    /\ cpus[c1].at_lazy /\ cpus[c2].at_lazy

\* C1: when two CPUs handle a fault on the same LazyCommitted page of the
\* same VMO, exactly one frame is allocated and m_unused_committed_pages is
\* decremented exactly once, whichever paths the two handlers take.
C1_OneFrameOneDecrement ==
    \A c1, c2 \in CPUs :
        SameLazyPage(c1, c2) =>
            /\ cpus[c1].allocated + cpus[c2].allocated = 1
            /\ cpus[c1].decremented + cpus[c2].decremented = 1

\* The same write fault delivered twice: two handlers for a store through
\* the same writable Region to the same page, both raised while the slot held
\* LazyCommitted, neither of which ran out of memory.
DuplicateWriteFault(c1, c2) ==
    /\ SameLazyPage(c1, c2)
    /\ cpus[c1].region = cpus[c2].region
    /\ is_writable(regions[cpus[c1].region])
    /\ cpus[c1].type = "ProtectionViolation" /\ cpus[c2].type = "ProtectionViolation"
    /\ cpus[c1].access = "Write" /\ cpus[c2].access = "Write"
    /\ cpus[c1].response # "OutOfMemory" /\ cpus[c2].response # "OutOfMemory"

\* C2: a write fault on a sentinel page of a writable Region delivered on
\* two CPUs makes both handle_fault calls return Continue, also when the
\* second call starts after the first has installed the frame and remapped.
C2_BothContinue ==
    \A c1, c2 \in CPUs :
        DuplicateWriteFault(c1, c2) =>
            cpus[c1].response = "Continue" /\ cpus[c2].response = "Continue"

\* C3: in every reachable state, a Region's page-table entry for a page
\* whose slot holds SharedZero or LazyCommitted is, if present, not writable.
C3_SentinelNotWritable ==
    \A r \in Regions :
        regions[r].alive =>
            \A p \in Pages :
                (IsSentinel(vmobjects[regions[r].m_vmobject].m_physical_pages[p])
                 /\ regions[r].pte[p].present)
                    => ~regions[r].pte[p].writable

\* A purge has just taken a frame away from under a writable Region whose
\* entry for the page is present: the entry now shows SharedZero read-only.
C3_Witness ==
    /\ last.op = "purge" /\ last.p > 0
    /\ \E r \in RegionsOf(last.v), p \in Pages :
        /\ is_writable(regions[r])
        /\ p \in vmobjects[last.v].volatile
        /\ is_shared_zero_page(vmobjects[last.v].m_physical_pages[p])
        /\ regions[r].pte[p].present
        /\ regions[r].pte[p].frame = SharedZero

\* C4: outside the fault handlers, every private Region's page-table entry
\* for a page whose cow bit is set in its VMO is, if present, not writable;
\* for every Region mapping the VMO, not only the one clone() was called on.
C4_CowNotWritable ==
    AllIdle =>
        \A r \in Regions :
            (regions[r].alive /\ ~regions[r].m_shared) =>
                \A p \in Pages :
                    (/\ ~vmobjects[regions[r].m_vmobject].m_cow_map.is_null
                     /\ vmobjects[regions[r].m_vmobject].m_cow_map.bits[p]
                     /\ regions[r].pte[p].present)
                        => ~regions[r].pte[p].writable

\* The state right after a successful private Region::clone.
Cloned == last.op = "clone" /\ last.ok
CowBitsAllSet(vm) == ~vm.m_cow_map.is_null /\ \A p \in Pages : vm.m_cow_map.bits[p]

\* C5 as stated: right after a successful try_clone the parent slot and the
\* child slot hold the same frame for every page, and every cow bit is set
\* in both VMOs.
C5_SameFrameEveryPage ==
    Cloned =>
        /\ \A p \in Pages :
              vmobjects[last.w].m_physical_pages[p] = vmobjects[last.v].m_physical_pages[p]
        /\ CowBitsAllSet(vmobjects[last.v]) /\ CowBitsAllSet(vmobjects[last.w])

\* C5 amended: right after a successful try_clone every cow bit is set in
\* both VMOs; a page whose parent slot holds LazyCommitted is SharedZero in
\* the child (the commitment stays with the parent, the child holds none);
\* every other page holds the same frame in both, referenced at least twice.
C5_SharedExceptLazy ==
    Cloned =>
        /\ CowBitsAllSet(vmobjects[last.v]) /\ CowBitsAllSet(vmobjects[last.w])
        /\ vmobjects[last.w].m_unused_committed_pages = 0
        /\ \A p \in Pages :
              LET parent_slot == vmobjects[last.v].m_physical_pages[p]
                  child_slot == vmobjects[last.w].m_physical_pages[p] IN
              IF is_lazy_committed_page(parent_slot)
              THEN is_shared_zero_page(child_slot)
              ELSE child_slot = parent_slot /\ ref_count(parent_slot) >= 2

\* A clone of a VMO with one page still LazyCommitted and one page faulted in.
C5_Witness ==
    /\ Cloned
    /\ \E p, q \in Pages :
        /\ is_lazy_committed_page(vmobjects[last.v].m_physical_pages[p])
        /\ is_shared_zero_page(vmobjects[last.w].m_physical_pages[p])
        /\ IsNormal(vmobjects[last.v].m_physical_pages[q])
        /\ vmobjects[last.w].m_physical_pages[q] = vmobjects[last.v].m_physical_pages[q]

\* The frames held by the slots of live VMOs other than v.
FramesOfOthers(v) ==
    {vmobjects[v2].m_physical_pages[q] : v2 \in {x \in VMOs \ {v} : vmobjects[x].alive}, q \in Pages}
        \cap Frames

\* C6: after a private clone a store by one side is never visible through
\* the other side's mapping: a store through a private Region changes no
\* frame held by a slot of another VMO.
C6_WriteNotVisible ==
    [][\A r \in Regions, p \in Pages, val \in Values :
          (UserWrite(r, p, val) /\ ~regions[r].m_shared) =>
              \A f \in FramesOfOthers(regions[r].m_vmobject) : content'[f] = content[f]]_vars

\* C7: try_clone called while the commit pool cannot supply the pages of the
\* non-volatile ranges returns absence, and so does Region::clone; the VMOs
\* (cow bitmaps, slots, counters, pool references), the pools, the global
\* commit counter, the frames and the Regions are what they were.
C7_CloneOOMLeavesParent ==
    [][\A r \in Regions :
          (/\ regions[r].alive
           /\ Uncommitted < need_cow_pages(vmobjects[regions[r].m_vmobject])
           /\ \E pool_ok, vmo_ok \in BOOLEAN : clone(r, pool_ok, vmo_ok))
              => /\ last'.op = "clone" /\ ~last'.ok /\ last'.resp = "commit"
                 /\ UNCHANGED <<vmobjects, regions, pools, committed, content>>]_vars

\* A clone has just failed on the commit, on a VMO that holds frames.
C7_Witness ==
    /\ last.op = "clone" /\ ~last.ok /\ last.resp = "commit"
    /\ vmobjects[last.v].alive
    /\ \E p \in Pages : IsNormal(vmobjects[last.v].m_physical_pages[p])

LazySlots(vm) == {p \in Pages : is_lazy_committed_page(vm.m_physical_pages[p])}

\* C8: in every reachable state, between handler steps too, every VMO has
\* m_unused_committed_pages >= the number of its LazyCommitted slots.
C8_UnusedCoversLazy ==
    \A v \in VMOs :
        vmobjects[v].alive =>
            vmobjects[v].m_unused_committed_pages >= Cardinality(LazySlots(vmobjects[v]))

RECURSIVE SumOver(_, _)
SumOver(S, val) ==
    IF S = {} THEN 0 ELSE LET x == SetMin(S) IN val[x] + SumOver(S \ {x}, val)

UnusedCommittedTotal ==
    SumOver({v \in VMOs : vmobjects[v].alive},
            [v \in VMOs |-> vmobjects[v].m_unused_committed_pages])
PoolCreditsTotal == SumOver({k \in Pools : PoolLive(k)}, pools)

\* C9: after every completed operation the global committed-page counter
\* equals the sum of m_unused_committed_pages over live VMOs plus the
\* credits of live CommittedCowPages pools.
C9_CommitAccounting ==
    (AllIdle /\ Running) => committed = UnusedCommittedTotal + PoolCreditsTotal

\* C10: every draw on the CommittedCowPages pool in handle_cow_fault, taking
\* a frame or returning a credit, finds at least one credit left.
C10_CreditLeft ==
    \A c \in CPUs :
        cpus[c].pc = "handle_cow_fault" =>
            LET vm == vmobjects[FaultVMO(c)]
                k == vm.m_shared_committed_cow_pages IN
            (k # 0 /\ is_nonvolatile(vm, cpus[c].page)
             /\ vm.m_physical_pages[cpus[c].page] # NullPage)
                => pools[k] >= 1

\* C11: when the page copy of handle_cow_fault faults while it reads the
\* source page, the handler's response is ShouldCrash (it does not return
\* Continue).
C11_CopyFaultCrashes ==
    \A c \in CPUs :
        (cpus[c].pc = "done" /\ cpus[c].copy_faulted) => cpus[c].response = "ShouldCrash"

Slot(r, p) == vmobjects[regions[r].m_vmobject].m_physical_pages[p]
Mapped(r) == regions[r].alive /\ regions[r].m_page_directory

\* C13 (as stated): in every reachable state, for every page of every mapped
\* Region, a present page-table entry implies that the VMO slot holds a
\* Normal frame (not SharedZero, not LazyCommitted, not absent).
C13_PresentIsNormal ==
    \A r \in Regions, p \in Pages :
        (Mapped(r) /\ regions[r].pte[p].present) => IsNormal(Slot(r, p))

\* C13 (amended): a present page-table entry over a slot that holds no
\* Normal frame is read-only and maps a sentinel page (the shared zero page
\* or the lazy-committed page).
C13_PresentNormalOrReadOnlySentinel ==
    \A r \in Regions, p \in Pages :
        (Mapped(r) /\ regions[r].pte[p].present) =>
            \/ IsNormal(Slot(r, p))
            \/ ~regions[r].pte[p].writable /\ IsSentinel(regions[r].pte[p].frame)

\* A purge has replaced frames and a Region has a present entry over the
\* shared zero page for a purged page.
C13_Witness ==
    /\ last.op = "purge" /\ last.p > 0
    /\ \E r \in Regions, p \in Pages :
          /\ Mapped(r) /\ regions[r].pte[p].present
          /\ p \in vmobjects[regions[r].m_vmobject].volatile
          /\ is_shared_zero_page(Slot(r, p))
          /\ is_shared_zero_page(regions[r].pte[p].frame)

\* C14: purge() returns exactly the number of slots that held a Normal frame
\* inside volatile ranges; afterwards every slot inside every volatile range
\* is SharedZero, the slots outside are unchanged, and each replaced frame
\* has lost exactly one reference.
C14_PurgeCountsAndReplaces ==
    [][\A v \in VMOs :
         (purge(v) /\ panic' = "none") =>
             LET before == vmobjects[v].m_physical_pages
                 after == vmobjects'[v].m_physical_pages
                 vol == vmobjects[v].volatile IN
             /\ last'.op = "purge" /\ last'.v = v
             /\ last'.p = Cardinality({p \in vol : IsNormal(before[p])})
             /\ vmobjects'[v].volatile = vol
             /\ \A p \in vol : is_shared_zero_page(after[p])
             /\ \A p \in Pages \ vol : after[p] = before[p]
             /\ \A p \in vol : IsNormal(before[p]) =>
                    RefCountIn(vmobjects', cpus', before[p]) = ref_count(before[p]) - 1]_vars

\* A purge has replaced at least one frame and has left a frame outside the
\* volatile ranges in place.
C14_Witness ==
    /\ last.op = "purge" /\ last.p >= 1
    /\ \E p \in Pages \ vmobjects[last.v].volatile :
          IsNormal(vmobjects[last.v].m_physical_pages[p])
    /\ \E p \in vmobjects[last.v].volatile :
          is_shared_zero_page(vmobjects[last.v].m_physical_pages[p])

\* The cow bit of a page, as the non-volatile transition reads it.
CowBit(vm, p) == ~vm.m_cow_map.is_null /\ vm.m_cow_map.bits[p]

\* C15: the transition of a page range to non-volatile is all-or-nothing:
\* with n the number of slots in the range that are SharedZero and have no
\* cow bit, it succeeds iff commit(n) succeeds; on success exactly those n
\* slots become LazyCommitted and unused_committed_pages grows by n; on
\* failure no slot, no counter and no volatility state changes.
C15_NonVolatileAllOrNothing ==
    [][\A v \in VMOs, rg \in Ranges :
         MakeNonVolatile(v, rg) =>
             LET vm == vmobjects[v]
                 needed == {p \in RangePages(rg) :
                               is_shared_zero_page(vm.m_physical_pages[p]) /\ ~CowBit(vm, p)}
                 n == Cardinality(needed) IN
             IF Uncommitted >= n THEN
                 /\ last'.ok
                 /\ \A p \in Pages : vmobjects'[v].m_physical_pages[p] =
                        IF p \in needed THEN LazyCommitted ELSE vm.m_physical_pages[p]
                 /\ vmobjects'[v].m_unused_committed_pages = vm.m_unused_committed_pages + n
                 /\ committed' = committed + n
                 /\ vmobjects'[v].volatile = vm.volatile \ RangePages(rg)
             ELSE
                 /\ ~last'.ok
                 /\ UNCHANGED <<vmobjects, regions, pools, committed, content>>]_vars

\* A transition to non-volatile has failed for want of commitment, with the
\* range still volatile and its SharedZero slots in place.
C15_Witness ==
    /\ last.op = "nonvolatile" /\ ~last.ok /\ last.p > 0
    /\ vmobjects[last.v].volatile # {}
    /\ \E p \in vmobjects[last.v].volatile :
          is_shared_zero_page(vmobjects[last.v].m_physical_pages[p])

\* C16: when a range becomes volatile, every LazyCommitted slot inside the
\* newly volatile range is replaced by SharedZero, the VMO's
\* unused_committed_pages and the global commit counter both decrease by
\* exactly the number of slots converted, and the slots outside the range
\* and the Normal slots are unchanged.
C16_VolatileUncommitsLazy ==
    [][\A v \in VMOs, rg \in Ranges :
         MakeVolatile(v, rg) =>
             LET vm == vmobjects[v]
                 converted == {p \in RangePages(rg) : is_lazy_committed_page(vm.m_physical_pages[p])}
                 n == Cardinality(converted) IN
             /\ \A p \in RangePages(rg) : ~is_lazy_committed_page(vmobjects'[v].m_physical_pages[p])
             /\ \A p \in converted : is_shared_zero_page(vmobjects'[v].m_physical_pages[p])
             /\ \A p \in Pages \ converted :
                    vmobjects'[v].m_physical_pages[p] = vm.m_physical_pages[p]
             /\ vmobjects'[v].m_unused_committed_pages = vm.m_unused_committed_pages - n
             /\ committed' = committed - n]_vars

\* Two CPUs handle NotPresent faults raised on the same page of the same
\* inode-backed VMO while its slot was empty.
SameEmptyInodePage(c1, c2) ==
    /\ c1 # c2
    /\ cpus[c1].pc # "idle" /\ cpus[c2].pc # "idle"
    /\ cpus[c1].type = "PageNotPresent" /\ cpus[c2].type = "PageNotPresent"
    /\ cpus[c1].at_empty /\ cpus[c2].at_empty
    /\ FaultVMO(c1) = FaultVMO(c2) /\ cpus[c1].page = cpus[c2].page
    /\ vmobjects[FaultVMO(c1)].is_inode

\* C17: when two NotPresent faults on the same empty page of an inode-backed
\* VMO are handled at once, exactly one frame is allocated and published:
\* the handler that takes the VMO lock second finds the slot filled,
\* allocates no frame, does not overwrite the slot, remaps the page and
\* returns Continue.
C17_InodeRaceOneFrame ==
    \A c1, c2 \in CPUs :
        SameEmptyInodePage(c1, c2) =>
            /\ panic = "none"
            /\ cpus[c1].allocated + cpus[c2].allocated <= 1
            /\ (cpus[c1].pc = "done" /\ cpus[c1].response = "Continue"
                 /\ cpus[c1].allocated = 1 /\ cpus[c2].pc = "done"
                 /\ cpus[c2].response # "ShouldCrash")
                => cpus[c2].allocated = 0

\* The place of a lock in the descent order VMO lock -> mm_lock -> page
\* directory lock.
Rank(l) == IF l = "vmo" THEN 1 ELSE IF l = "mm" THEN 2 ELSE 3

\* C18: on every path that holds more than one lock the locks are taken in
\* the order VMO lock, mm_lock, page directory lock: no thread takes the VMO
\* lock while it holds mm_lock or the page directory lock, nor mm_lock while
\* it holds the page directory lock.
C18_LockOrder ==
    \A c \in CPUs : \A i, j \in DOMAIN cpus[c].held :
        i < j => Rank(cpus[c].held[i]) < Rank(cpus[c].held[j])

\* The fault a handler is about to dispatch is an illegal access: a
\* NotPresent fault reading a Region that is not readable or writing a
\* Region that is not writable, or a ProtectionViolation that is not a write
\* to a writable Region on a page that should be copied on write.
IllegalAccess(c) ==
    LET f == cpus[c]
        reg == regions[f.region]
        vm == vmobjects[reg.m_vmobject]
        slot == vm.m_physical_pages[f.page]
        cow == \/ slot # NullPage /\ IsSentinel(slot)
               \/ ~reg.m_shared /\ ~vm.m_cow_map.is_null /\ vm.m_cow_map.bits[f.page] IN
    \/ /\ f.type = "PageNotPresent"
       /\ \/ f.access = "Read" /\ ~reg.readable
          \/ f.access = "Write" /\ ~reg.writable
    \/ /\ f.type = "ProtectionViolation"
       /\ ~(f.access = "Write" /\ reg.writable /\ cow)

\* C19: an illegal access makes Region::handle_fault return ShouldCrash and
\* leaves every slot, cow bit, commit counter and page-table entry unchanged.
C19_IllegalAccessCrashes ==
    [][\A c \in CPUs :
         (handle_fault(c) /\ IllegalAccess(c)) =>
             /\ cpus'[c].pc = "done"
             /\ cpus'[c].response = "ShouldCrash"
             /\ UNCHANGED <<vmobjects, regions, pools, committed, content, panic>>]_vars

\* A handler has answered ShouldCrash to a write through a Region that is
\* not writable.
C19_Witness ==
    \E c \in CPUs :
        /\ cpus[c].pc = "done" /\ cpus[c].response = "ShouldCrash"
        /\ cpus[c].access = "Write" /\ ~regions[cpus[c].region].writable

\* VMO v was cloned and the other VMO of the pair has been destroyed.
ChildGone(v) ==
    /\ vmobjects[v].alive /\ ~vmobjects[v].m_cow_map.is_null
    /\ \E w \in VMOs \ {v} : vmobjects[w].ever /\ ~vmobjects[w].alive
    /\ \A w \in VMOs \ {v} : ~vmobjects[w].alive

\* C20: after a private clone and the destruction of the child VMO, a write
\* fault of the parent on a page it shared ends with the parent's slot
\* holding the same Normal frame, referenced once, the cow bit cleared, the
\* page-table entry present and writable, and no new frame allocated.
C20_SoleOwnerKeepsFrame ==
    [][\A c \in CPUs :
         LET r == cpus[c].region
             p == cpus[c].page
             v == regions[r].m_vmobject
             slot == vmobjects[v].m_physical_pages[p] IN
         /\ (handle_cow_fault(c) /\ ChildGone(v)) =>
                /\ panic' = "none"
                /\ vmobjects'[v].m_physical_pages[p] = slot
                /\ IsNormal(slot) /\ RefCountIn(vmobjects', cpus', slot) = 1
                /\ ~CowBit(vmobjects'[v], p)
                /\ cpus'[c].allocated = 0
                /\ cpus'[c].response = "Continue"
         /\ (\E pt_ok \in BOOLEAN : cow_remap(c, pt_ok) /\ ChildGone(v)) =>
                /\ cpus'[c].response = "Continue"
                /\ regions'[r].pte[p] = [present |-> TRUE, writable |-> TRUE, frame |-> slot]]_vars

\* C21: destroying an anonymous VMO created with strategy Reserve uncommits
\* exactly its remaining m_unused_committed_pages, whatever faults and
\* volatile or non-volatile transitions came in between: afterwards the
\* global commit counter is what the remaining VMOs hold (the destroyed VMO
\* contributes nothing, nothing was uncommitted twice), the counter is never
\* below zero, and a VMO destroyed right after its creation brings the
\* counter back to its value before the creation.
C21_DestructorUncommits ==
    [][/\ committed' >= 0
       /\ \A v \in VMOs :
            DestroyVMO(v) =>
                /\ committed' = committed - vmobjects[v].m_unused_committed_pages
                /\ committed' = UnusedCommittedTotal'
                /\ (last.op = "create" /\ last.ok /\ last.v = v) => committed' = last.p]_vars

\* A VMO has just been destroyed that still held a part of its commitment
\* (the rest was used by a fault or given up by a volatile range), while
\* another VMO keeps its own.
C21_Witness ==
    /\ last.op = "destroy" /\ last.p > 0 /\ last.p < NPages
    /\ committed = UnusedCommittedTotal
    /\ \E v \in VMOs : vmobjects[v].alive /\ vmobjects[v].m_unused_committed_pages > 0

\* C22: try_create_with_size(n pages, strategy) yields, for Reserve, n more
\* pages committed, every slot LazyCommitted and m_unused_committed_pages = n;
\* for AllocateNow, n pages committed and consumed at once, every slot a
\* distinct zero-filled Normal frame that was free, m_unused_committed_pages
\* = 0; for None, nothing committed, every slot SharedZero and
\* m_unused_committed_pages = 0.  For Reserve and AllocateNow, when the
\* commit is refused no VMO is made and the global commit counter is
\* unchanged.
C22_CreateByStrategy ==
    [][\A strategy \in Strategies, heap_ok \in BOOLEAN :
          try_create_with_size(strategy, heap_ok) =>
              LET v == FreeVMO
                  vm == vmobjects'[v] IN
              IF strategy \in {"Reserve", "AllocateNow"} /\ Uncommitted < NPages THEN
                  /\ ~last'.ok
                  /\ UNCHANGED <<vmobjects, committed, content>>
              ELSE heap_ok =>
                  /\ last'.ok /\ last'.v = v /\ vm.alive
                  /\ vm.m_cow_map.is_null /\ vm.volatile = {}
                  /\ vm.m_shared_committed_cow_pages = 0
                  /\ CASE strategy = "Reserve" ->
                           /\ committed' = committed + NPages
                           /\ \A p \in Pages : is_lazy_committed_page(vm.m_physical_pages[p])
                           /\ vm.m_unused_committed_pages = NPages
                           /\ Used' = Used
                       [] strategy = "AllocateNow" ->
                           /\ committed' = committed
                           /\ Used' = Used + NPages
                           /\ \A p \in Pages :
                                 /\ vm.m_physical_pages[p] \in FreeFrames
                                 /\ RefCountIn(vmobjects', cpus', vm.m_physical_pages[p]) = 1
                                 /\ content'[vm.m_physical_pages[p]] = 0
                           /\ \A p, q \in Pages :
                                 p # q => vm.m_physical_pages[p] # vm.m_physical_pages[q]
                           /\ vm.m_unused_committed_pages = 0
                       [] OTHER ->
                           /\ committed' = committed
                           /\ \A p \in Pages : is_shared_zero_page(vm.m_physical_pages[p])
                           /\ vm.m_unused_committed_pages = 0
                           /\ Used' = Used]_vars

\* An AllocateNow VMO has just been created next to a VMO that already holds
\* frames or a commitment.
C22_Witness ==
    /\ last.op = "create" /\ last.ok /\ last.resp = "AllocateNow"
    /\ \A p \in Pages : IsNormal(vmobjects[last.v].m_physical_pages[p])
    /\ \E w \in VMOs \ {last.v} :
          /\ vmobjects[w].alive
          /\ \/ vmobjects[w].m_unused_committed_pages > 0
             \/ \E p \in Pages : IsNormal(vmobjects[w].m_physical_pages[p])

\* C23: Region::map returns true iff every page of the Region was installed;
\* if installing page k fails, pages [0,k) are installed and the other
\* entries are left as they were, the TLB is flushed for exactly pages [0,k)
\* when the flush policy is Yes and k > 0 (not at all otherwise), and map
\* returns false.
C23_MapPartialFailure ==
    [][\A r \in Regions, k \in 0..NPages :
          map(r, k) =>
              LET vm == vmobjects[regions[r].m_vmobject] IN
              /\ last'.op = "map" /\ last'.r = r
              /\ last'.ok <=> (k = NPages)
              /\ \A p \in Pages :
                    regions'[r].pte[p] =
                        IF p < k THEN map_individual_page_impl(regions[r], vm, p)
                        ELSE regions[r].pte[p]
              /\ last'.p = IF last'.resp = "Yes" /\ k > 0 THEN k ELSE 0]_vars

\* Region::map has just failed after installing a first page: the first
\* entry is present and flushed, the entry of the failing page is not.
C23_Witness ==
    /\ last.op = "map" /\ ~last.ok
    /\ last.w > 0 /\ last.w < NPages
    /\ last.resp = "Yes" /\ last.p = last.w
    /\ regions[last.r].pte[0].present
    /\ ~regions[last.r].pte[last.w].present

\* C24: if the inode read in handle_inode_fault returns an error, the handler
\* returns ShouldCrash without allocating a frame and with the slot still
\* empty; if the read returns fewer than PageSize bytes, the published page
\* holds the bytes read followed by zeros up to PageSize.
C24_InodeReadErrorAndPadding ==
    [][\A c \in CPUs :
         LET v == regions[cpus[c].region].m_vmobject
             p == cpus[c].page IN
         /\ (\E nread \in 0..PageSize : inode_read(c, FALSE, nread)) =>
                /\ cpus'[c].pc = "done" /\ cpus'[c].response = "ShouldCrash"
                /\ cpus'[c].allocated = 0
                /\ vmobjects'[v].m_physical_pages[p] = NullPage
                /\ UNCHANGED <<vmobjects, regions, content, committed>>
         /\ (inode_publish(c) /\ cpus'[c].allocated = 1) =>
                LET frame == vmobjects'[v].m_physical_pages[p] IN
                /\ IsNormal(frame)
                /\ content'[frame] =
                       [i \in ByteOffsets |-> IF i <= cpus[c].nread THEN InodeByte ELSE 0]]_vars

\* A page has just been published from a read that returned some bytes but
\* not a whole page.
C24_Witness ==
    \E c \in CPUs :
        /\ cpus[c].pc = "inode_remap" /\ cpus[c].allocated = 1
        /\ cpus[c].nread > 0 /\ cpus[c].nread < PageSize
        /\ LET frame == vmobjects[FaultVMO(c)].m_physical_pages[cpus[c].page] IN
           /\ IsNormal(frame)
           /\ content[frame][cpus[c].nread] = InodeByte
           /\ content[frame][PageSize] = 0

\* C25: after Region::unmap on a mapped Region no page-table entry of the
\* Region's range is present, the TLB was flushed for the whole range, the
\* Region has no page directory and, when deallocation is requested, the
\* virtual range has been released to the page directory's user range
\* allocator if that allocator contains the range and otherwise to the
\* identity range allocator; unmap on a Region that is not mapped changes
\* nothing.
C25_UnmapClearsAndReleases ==
    [][\A r \in Regions, deallocate_range \in BOOLEAN, contains \in BOOLEAN :
          unmap(r, deallocate_range, contains) =>
              IF regions[r].m_page_directory THEN
                  /\ \A p \in Pages : ~regions'[r].pte[p].present
                  /\ ~regions'[r].m_page_directory
                  /\ last'.op = "unmap" /\ last'.p = NPages
                  /\ last'.resp =
                        IF ~deallocate_range THEN "none"
                        ELSE IF contains THEN "range_allocator"
                        ELSE "identity_range_allocator"
                  /\ \A r2 \in Regions \ {r} : regions'[r2] = regions[r2]
                  /\ UNCHANGED <<vmobjects, pools, committed, content>>
              ELSE
                  /\ last'.p = 0 /\ last'.resp = "none"
                  /\ UNCHANGED <<vmobjects, regions, pools, committed, content, cpus, panic>>]_vars

\* A Region whose entries were present has just been unmapped and its range
\* given back to the identity range allocator.
C25_Witness ==
    /\ last.op = "unmap" /\ last.ok /\ last.resp = "identity_range_allocator"
    /\ regions[last.r].alive /\ ~regions[last.r].m_page_directory
    /\ \A p \in Pages :
          /\ ~regions[last.r].pte[p].present
          /\ vmobjects[last.v].m_physical_pages[p] # NullPage

\* C26: in every reachable state each live Region is in the region list of
\* exactly one VMO, the one it references, and no region list holds a
\* destroyed Region; a set_vmobject with the VMO already referenced has
\* changed nothing.
C26_RegionListsMatch ==
    /\ \A r \in Regions :
          regions[r].alive =>
              {v \in VMOs : r \in vmobjects[v].m_regions} = {regions[r].m_vmobject}
    /\ \A v \in VMOs : \A r \in vmobjects[v].m_regions : regions[r].alive /\ vmobjects[v].alive
    /\ (last.op = "set_vmobject" /\ ~last.ok) =>
          regions[last.r].m_vmobject = last.v /\ last.r \in vmobjects[last.v].m_regions

\* set_vmobject has just moved a Region to another VMO that has a Region of
\* its own, and a Region has been destroyed before.
C26_Witness ==
    /\ last.op = "set_vmobject" /\ last.ok /\ last.v # last.w
    /\ last.r \in vmobjects[last.w].m_regions
    /\ Cardinality(vmobjects[last.w].m_regions) = 2
    /\ \E r \in Regions : regions[r].ever /\ ~regions[r].alive

\* What Region::clone hands from the parent to the child.
SameKind(child, parent) ==
    /\ child.m_range = parent.m_range
    /\ child.m_offset_in_vmobject = parent.m_offset_in_vmobject
    /\ child.readable = parent.readable /\ child.writable = parent.writable
    /\ child.m_cacheable = parent.m_cacheable
    /\ child.m_shared = parent.m_shared
    /\ child.m_mmap = parent.m_mmap
    /\ child.m_syscall_region = parent.m_syscall_region

\* C27: Region::clone of a shared Region produces a child Region over the
\* same VMO, commits nothing and leaves the VMO's cow bitmap unchanged;
\* clone of a private Region produces a child Region over a new VMO obtained
\* from try_clone.  In both cases the child has the parent's range, VMO
\* offset, access bits, cacheable flag, shared flag and mmap and syscall
\* tags.
C27_CloneKeepsKind ==
    [][\A r \in Regions :
         /\ clone_shared(r) =>
                /\ regions'[FreeRegion].alive
                /\ regions'[FreeRegion].m_vmobject = regions[r].m_vmobject
                /\ UNCHANGED <<committed, pools>>
                /\ vmobjects'[regions[r].m_vmobject].m_cow_map
                      = vmobjects[regions[r].m_vmobject].m_cow_map
                /\ SameKind(regions'[FreeRegion], regions[r])
         /\ (clone(r, TRUE, TRUE) /\ last'.ok) =>
                /\ regions'[FreeRegion].alive
                /\ regions'[FreeRegion].m_vmobject = FreeVMO
                /\ ~vmobjects[FreeVMO].ever /\ vmobjects'[FreeVMO].alive
                /\ vmobjects'[FreeVMO].m_physical_pages
                      = CopyAnonymousVMObject(vmobjects'[regions[r].m_vmobject]).m_physical_pages
                /\ SameKind(regions'[FreeRegion], regions[r])]_vars

\* A private Region outside the first range, not cacheable, tagged mmap and
\* syscall, has just been cloned.
C27_Witness ==
    /\ last.op = "clone" /\ last.ok /\ last.v # last.w
    /\ regions[last.r].m_range # 1 /\ ~regions[last.r].m_cacheable
    /\ regions[last.r].m_mmap /\ regions[last.r].m_syscall_region
    /\ \E ch \in RegionsOf(last.w) : SameKind(regions[ch], regions[last.r])

\* The handler on CPU c works on a write fault taken through a read/write
\* Region of a never-cloned VMO, on a page whose entry was present.
FirstWriteFault(c) ==
    LET reg == regions[cpus[c].region]
        vm == vmobjects[reg.m_vmobject] IN
    /\ cpus[c].access = "Write" /\ cpus[c].type = "ProtectionViolation"
    /\ is_readable(reg) /\ is_writable(reg)
    /\ vm.m_cow_map.is_null /\ vm.m_shared_committed_cow_pages = 0

\* C28: for a never-cloned VMO created with strategy Reserve and mapped
\* read/write, handling the first write fault on a LazyCommitted page
\* installs a Normal zero-filled frame in that slot, leaves the page-table
\* entry present and writable, decrements m_unused_committed_pages by
\* exactly 1, leaves every other slot as it was (LazyCommitted ones stay
\* LazyCommitted) and raises amount_resident() by exactly PageSize.
C28_FirstWriteOnLazyPage ==
    [][\A c \in CPUs :
         LET r == cpus[c].region
             p == cpus[c].page
             v == regions[r].m_vmobject
             vm == vmobjects[v] IN
         /\ (zero_allocate(c) /\ FirstWriteFault(c)
               /\ is_lazy_committed_page(vm.m_physical_pages[p])) =>
                /\ panic' = "none"
                /\ IsNormal(vmobjects'[v].m_physical_pages[p])
                /\ content'[vmobjects'[v].m_physical_pages[p]] = 0
                /\ vmobjects'[v].m_unused_committed_pages = vm.m_unused_committed_pages - 1
                /\ committed' = committed - 1
                /\ \A q \in Pages \ {p} :
                      vmobjects'[v].m_physical_pages[q] = vm.m_physical_pages[q]
                /\ amount_resident(r)' = amount_resident(r) + PageSize
         /\ (\E pt_ok \in BOOLEAN : zero_remap(c, pt_ok) /\ FirstWriteFault(c) /\ cpus[c].at_lazy) =>
                /\ regions'[r].pte[p] =
                      [present |-> TRUE, writable |-> TRUE, frame |-> vm.m_physical_pages[p]]
                /\ IsNormal(vm.m_physical_pages[p])
                /\ vmobjects'[v].m_physical_pages = vm.m_physical_pages
                /\ vmobjects'[v].m_unused_committed_pages = vm.m_unused_committed_pages]_vars

\* The handler of a write fault on a LazyCommitted page is done: the slot
\* holds a frame, the entry is writable, and another slot is still
\* LazyCommitted.
C28_Witness ==
    \E c \in CPUs :
        /\ Finished(c) /\ FirstWriteFault(c) /\ cpus[c].at_lazy
        /\ cpus[c].response = "Continue" /\ cpus[c].decremented = 1
        /\ regions[cpus[c].region].pte[cpus[c].page].writable
        /\ IsNormal(vmobjects[FaultVMO(c)].m_physical_pages[cpus[c].page])
        /\ \E q \in Pages : is_lazy_committed_page(vmobjects[FaultVMO(c)].m_physical_pages[q])

\* C29: when handle_cow_fault runs on a page whose frame has refcount 1, no
\* frame is allocated and the slot keeps its frame; the cow bit of the page
\* is cleared; if the VMO holds a committed-cow pool and the page is
\* non-volatile, exactly one credit is returned from the pool (the global
\* commit decreases by 1) and the VMO drops its pool reference exactly when
\* that return drains the pool; if the VMO holds no pool, the pool is not
\* touched.
C29_SoleOwnerReturnsCredit ==
    [][\A c \in CPUs :
         LET v == regions[cpus[c].region].m_vmobject
             p == cpus[c].page
             vm == vmobjects[v]
             k == vm.m_shared_committed_cow_pages
             slot == vm.m_physical_pages[p] IN
         (handle_cow_fault(c) /\ slot # NullPage /\ ref_count(slot) = 1) =>
             /\ panic' = "none"
             /\ cpus'[c].allocated = cpus[c].allocated
             /\ vmobjects'[v].m_physical_pages = vm.m_physical_pages
             /\ ~CowBit(vmobjects'[v], p)
             /\ IF k # 0 /\ is_nonvolatile(vm, p) THEN
                    /\ pools'[k] = pools[k] - 1 /\ pools'[k] >= 0
                    /\ committed' = committed - 1
                    /\ (vmobjects'[v].m_shared_committed_cow_pages = 0) <=> (pools[k] - 1 = 0)
                    /\ vmobjects'[v].m_shared_committed_cow_pages \in {0, k}
                ELSE
                    /\ UNCHANGED <<pools, committed>>
                    /\ vmobjects'[v].m_shared_committed_cow_pages = k]_vars

\* C30: when handle_cow_fault runs on a page with refcount > 1 and no usable
\* committed pool (no pool, or the page is volatile) and the user-frame
\* allocation fails, the fault returns OutOfMemory with the slot, the
\* frame's refcount, the cow bit, the pool and the commit counters all
\* unchanged.
C30_CowOutOfMemoryChangesNothing ==
    [][\A c \in CPUs :
         LET v == regions[cpus[c].region].m_vmobject
             p == cpus[c].page
             vm == vmobjects[v]
             k == vm.m_shared_committed_cow_pages
             slot == vm.m_physical_pages[p] IN
         /\ (/\ handle_cow_fault(c)
             /\ slot # NullPage /\ ref_count(slot) > 1
             /\ (k = 0 \/ ~is_nonvolatile(vm, p))
             /\ Uncommitted = 0) =>
                /\ cpus'[c].response = "OutOfMemory"
                /\ cpus'[c].allocated = cpus[c].allocated
                /\ RefCountIn(vmobjects', cpus', slot) = ref_count(slot)
                /\ UNCHANGED <<vmobjects, pools, committed, content, panic>>
         /\ (\E pt_ok \in BOOLEAN : cow_remap(c, pt_ok) /\ cpus[c].response = "OutOfMemory") =>
                /\ cpus'[c].pc = "done" /\ cpus'[c].response = "OutOfMemory"
                /\ CowBit(vmobjects'[v], p)
                /\ RefCountIn(vmobjects', cpus', slot) = ref_count(slot)
                /\ UNCHANGED <<vmobjects, pools, committed, content, panic>>]_vars

\* A copy-on-write fault on a volatile page shared with the clone has ended
\* in OutOfMemory: the frame is still shared and the cow bit still set.
C30_Witness ==
    \E c \in CPUs :
        /\ Finished(c) /\ cpus[c].response = "OutOfMemory"
        /\ cpus[c].type = "ProtectionViolation" /\ cpus[c].allocated = 0
        /\ LET vm == vmobjects[FaultVMO(c)] IN
           /\ IsNormal(vm.m_physical_pages[cpus[c].page])
           /\ ref_count(vm.m_physical_pages[cpus[c].page]) > 1
           /\ CowBit(vm, cpus[c].page)
           /\ Uncommitted = 0

\* A NotPresent fault on an anonymous VMO that passed the access checks of
\* Region::handle_fault.
NotPresentAdmitted(c) ==
    LET f == cpus[c]
        reg == regions[f.region] IN
    /\ f.type = "PageNotPresent"
    /\ ~(f.access = "Read" /\ ~is_readable(reg))
    /\ ~(f.access = "Write" /\ ~is_writable(reg))
    /\ ~vmobjects[reg.m_vmobject].is_inode

\* C31: for a NotPresent fault that passes the access checks on an anonymous
\* VMO, a LazyCommitted slot is replaced by a newly allocated committed
\* Normal frame, the page is remapped in every Region of the VMO and the
\* handler returns Continue; a slot holding SharedZero or a Normal frame
\* makes it return ShouldCrash with no slot or counter changed.
C31_NotPresentDispatch ==
    [][\A c \in CPUs :
         LET f == cpus[c]
             v == regions[f.region].m_vmobject
             slot == vmobjects[v].m_physical_pages[f.page] IN
         /\ (handle_fault(c) /\ NotPresentAdmitted(c) /\ slot # NullPage) =>
                IF is_lazy_committed_page(slot)
                THEN cpus'[c].pc = "allocate_committed_page"
                ELSE /\ cpus'[c].pc = "done" /\ cpus'[c].response = "ShouldCrash"
                     /\ UNCHANGED <<vmobjects, regions, pools, committed>>
         /\ allocate_committed_page(c) =>
                /\ panic' = panic
                /\ IsNormal(cpus'[c].new_page) /\ ref_count(cpus'[c].new_page) = 0
                /\ committed' = committed - 1
                /\ vmobjects'[v].m_unused_committed_pages
                       = vmobjects[v].m_unused_committed_pages - 1
         /\ store_slot(c) =>
                /\ vmobjects'[v].m_physical_pages[f.page] = f.new_page
                /\ \A q \in Pages \ {f.page} :
                      vmobjects'[v].m_physical_pages[q] = vmobjects[v].m_physical_pages[q]
         /\ (\E pt_ok \in BOOLEAN : remap_vmobject_page(c, pt_ok)) =>
                /\ cpus'[c].pc = "done" /\ cpus'[c].response = "Continue"
                /\ \A r \in RegionsOf(v) :
                      (regions[r].m_page_directory /\ regions'[r].pte[f.page].present) =>
                          regions'[r].pte[f.page] =
                              map_individual_page_impl(regions[r], vmobjects[v], f.page)]_vars

\* The page-table entry of the statement of C32: cleared for an absent slot
\* or a Region with no access, otherwise present over the slot's frame and
\* writable iff the Region is writable, the slot is not a sentinel and cow
\* does not hold.
EntryFor(reg, vm, p, cow) ==
    IF vm.m_physical_pages[p] = NullPage \/ (~reg.readable /\ ~reg.writable) THEN ClearPTE
    ELSE [present |-> TRUE,
          writable |-> reg.writable /\ ~IsSentinel(vm.m_physical_pages[p]) /\ ~cow,
          frame |-> vm.m_physical_pages[p]]

\* C32: every entry written by map_individual_page is cleared if the slot is
\* absent or the Region is neither readable nor writable; otherwise it is
\* present, points at the slot's frame, and is writable iff the Region is
\* writable, the slot is not a sentinel and the page's cow bit is not set.
C32_EntryFromSlotAndCowBit ==
    [][\A r \in Regions : \A p \in Pages :
         LET reg == regions'[r]
             vm == vmobjects'[reg.m_vmobject] IN
         (/\ regions[r].alive /\ reg.alive
          /\ \/ reg.pte[p] # regions[r].pte[p]
             \/ last'.op = "map" /\ last'.r = r /\ p < last'.w) =>
             reg.pte[p] = EntryFor(reg, vm, p, ~vm.m_cow_map.is_null /\ vm.m_cow_map.bits[p])]_vars

\* C32 with the cow bit counted for private Regions only.
C32_EntryFromSlotAndPrivateCowBit ==
    [][\A r \in Regions : \A p \in Pages :
         LET reg == regions'[r]
             vm == vmobjects'[reg.m_vmobject] IN
         (/\ regions[r].alive /\ reg.alive
          /\ \/ reg.pte[p] # regions[r].pte[p]
             \/ last'.op = "map" /\ last'.r = r /\ p < last'.w) =>
             reg.pte[p] = EntryFor(reg, vm, p,
                                   /\ ~reg.m_shared
                                   /\ ~vm.m_cow_map.is_null /\ vm.m_cow_map.bits[p])]_vars

\* Region::map has just mapped a shared writable Region over a VMO that was
\* cloned through a private Region: the entry of a page with a Normal frame
\* and its cow bit set is writable.
C32_Witness ==
    /\ last.op = "map" /\ last.ok
    /\ regions[last.r].alive /\ regions[last.r].m_shared /\ is_writable(regions[last.r])
    /\ \E p \in Pages :
          LET vm == vmobjects[last.v] IN
          /\ IsNormal(vm.m_physical_pages[p])
          /\ ~vm.m_cow_map.is_null /\ vm.m_cow_map.bits[p]
          /\ regions[last.r].pte[p].present /\ regions[last.r].pte[p].writable

\* C33: the assertions of allocate_committed_page never fail: whenever a
\* fault handler calls it for a LazyCommitted slot, the VMO's unused committed
\* pages are above 0 and the page is not volatile.
C33_AllocateCommittedNeverFails ==
    /\ panic # "allocate_committed_page"
    /\ \A c \in CPUs :
          (/\ cpus[c].pc \in {"allocate_committed_page", "zero_allocate"}
           /\ is_lazy_committed_page(vmobjects[FaultVMO(c)].m_physical_pages[cpus[c].page])
           /\ cpus[c].pc = "zero_allocate" \/ vmobjects[FaultVMO(c)].m_lock = 0) =>
              /\ vmobjects[FaultVMO(c)].m_unused_committed_pages > 0
              /\ cpus[c].page \notin vmobjects[FaultVMO(c)].volatile

\* C34: when handle_inode_fault is entered for a page whose slot was already
\* filled by a concurrent fault, the kernel does not halt: the handler goes
\* on to the check under the VMO lock, remaps and returns Continue.
C34_FilledSlotIsOnlyAHint ==
    [][\A c \in CPUs :
         (/\ handle_inode_fault(c)
          /\ vmobjects[FaultVMO(c)].m_physical_pages[cpus[c].page] # NullPage) =>
             /\ panic' = panic
             /\ cpus'[c].pc = "inode_read"]_vars

\* C35: when handle_zero_fault on a SharedZero slot cannot allocate a user
\* frame, it returns OutOfMemory and leaves the VMO unchanged: the slot still
\* holds SharedZero and no counter changes.
C35_ZeroFaultOutOfMemoryKeepsSlot ==
    [][\A c \in CPUs :
         LET v == FaultVMO(c)
             slot == vmobjects[v].m_physical_pages[cpus[c].page] IN
         (zero_allocate(c) /\ is_shared_zero_page(slot) /\ Uncommitted = 0) =>
             /\ cpus'[c].pc = "done" /\ cpus'[c].response = "OutOfMemory"
             /\ vmobjects'[v].m_physical_pages = vmobjects[v].m_physical_pages
             /\ vmobjects'[v].m_unused_committed_pages = vmobjects[v].m_unused_committed_pages
             /\ vmobjects'[v].m_cow_map = vmobjects[v].m_cow_map
             /\ UNCHANGED <<pools, committed>>]_vars

\* C36: set_should_cow(page, bit) changes the cow bit of that page only: for
\* every other page q, should_cow(q, false) and the contribution of q to
\* cow_pages() are the same before and after the call made by
\* handle_cow_fault, also when the VMO had no cow bitmap before the call.
C36_SetShouldCowOnePageOnly ==
    [][\A c \in CPUs :
         LET v == FaultVMO(c) IN
         (handle_cow_fault(c) /\ vmobjects'[v].m_cow_map # vmobjects[v].m_cow_map) =>
             \A q \in Pages \ {cpus[c].page} :
                 /\ should_cow(vmobjects'[v], q, FALSE) = should_cow(vmobjects[v], q, FALSE)
                 /\ CowBit(vmobjects'[v], q) = CowBit(vmobjects[v], q)]_vars

\* C37: in every reachable state no slot inside a volatile range of an
\* anonymous VMO holds the LazyCommitted sentinel, so purge() never fails its
\* assertion on such a slot.
C37_NoLazyCommittedInVolatileRange ==
    /\ panic # "VERIFY(!phys_page->is_lazy_committed_page())"
    /\ \A v \in VMOs :
          (vmobjects[v].alive /\ ~vmobjects[v].is_inode) =>
              \A p \in vmobjects[v].volatile :
                  ~is_lazy_committed_page(vmobjects[v].m_physical_pages[p])

\* The lock a thread is spinning on at its present position: lock l is held
\* by thread c2 and thread c needs it for its next step.
WaitsFor(c, c2) ==
    LET v == regions[cpus[c].region].m_vmobject IN
    \/ /\ cpus[c].pc \in {"clone_lock_vmobject", "remap", "allocate_committed_page"}
       /\ vmobjects[v].m_lock = c2
    \/ cpus[c].pc = "remap_lock_page_directory" /\ Holds(c2, "pd")
    \/ cpus[c].pc = "remap_lock_mm" /\ Holds(c2, "mm")

\* C38: no deadlock: there is no reachable state in which each of two
\* threads running Region::clone or a fault handler against the same VMO
\* holds one of the locks (VMO lock, mm_lock, page directory lock) and waits
\* for a lock held by the other.
C38_NoCircularWait ==
    \A c1, c2 \in CPUs :
        c1 # c2 => ~(/\ cpus[c1].held # <<>> /\ cpus[c2].held # <<>>
                     /\ WaitsFor(c1, c2) /\ WaitsFor(c2, c1))

====
